---- MODULE Spec2Model ----
(***************************************************************************)
(* A model of the decision core of ultrabalancer-pro: the backend          *)
(* selection strategies (src/src/plugins), the per-backend circuit         *)
(* breaker (src/src/reliability/circuit_breaker.py) and the per-backend    *)
(* connection pool (src/src/core/connection_pool.py).                      *)
(*                                                                         *)
(* Every component is an object of the program; its fields are held in one *)
(* record variable whose field names are those of the source.  A handler   *)
(* of the source is a pure operator from the object before the call to the *)
(* object after it (and the value returned), and an action applies it.     *)
(* Variables named *_log, *_calls, *_fresh, *_ret, *_probe are history     *)
(* variables: they record what the callers saw and never feed back into a  *)
(* handler.                                                                *)
(***************************************************************************)
EXTENDS Integers, Sequences, FiniteSets, Bags, TLC

VARIABLES
    rr,            \* RoundRobinAlgorithm: [current_index]
    rr_servers,    \* the eligible list the caller passes to select_server
    rr_ret,        \* value returned by the last select_server call
    rr_calls,      \* number of select_server calls since construction/reset
    rr_log,        \* the values returned by those calls, in order
    rr_threads,    \* thread -> where it is in select_server and its
                   \* locals: [pc, selected_server, next_index]
    wrr,           \* WeightedRoundRobinPlugin: its five fields
    wrr_backends,  \* the eligible list the caller passes to select_backend
    wrr_ret,       \* value returned (or exception raised) by the last call
    wrr_fresh,     \* no weight was registered after the first selection
    wrr_log,       \* the last selections made, newest last
    lc,            \* LeastConnectionsAlgorithm: [servers, connections]
    lc_ret,        \* the last call on it: [op, arg, ret]
    lc_sel,        \* the latest selection and how often its caller has
                   \* released it: [server, released]
    lc_seen,       \* the count the last release_connection found, else -1
    iph,           \* IPHashPlugin: [backend_cache, stats]
    iph_ret,       \* the last call on it: [op, backends, client_ip,
                   \* backend_id, cached, ret]; cached is the backend of
                   \* the cache entries the call found for its client
                   \* or its backend
    iph_assigned,  \* client -> the backend its last selection returned,
                   \* while that backend has not been removed
    cb,            \* CircuitBreaker: state, counters, last_failure_time, history
    cb_config,     \* its CircuitBreakerConfig
    now,           \* time.time()
    in_flight,     \* requests admitted whose outcome is not yet recorded
    cb_ret,        \* the last call on the breaker: [op, pre, ret]
    cb_opened_at,  \* the time of the last transition into Open
    cb_consec,     \* while Closed: failures recorded since the last success
    cb_probe,      \* successes recorded since an expired Open circuit
                   \* answered is_available() with true (-1: no such answer)
    cb_episode,    \* while HalfOpen: successes recorded since it was entered
    pool,          \* ConnectionPool: connections, available, stats, running
    pool_config,   \* its PoolConfig
    pool_time,     \* time.time(), as the pool reads it
    pool_loops,    \* maintenance threads: how many are at the while test
                   \* of _maintenance_loop and how many are in its sleep
    pool_acq,      \* caller -> where its acquire call stands
    pool_held,     \* caller -> the connection its last acquire returned and
                   \* whether it has released it since
    pool_ret,      \* the last step taken on the pool
    pool_phase,    \* "new", "started" (start() ran last) or "stopped"
    pool_steps,    \* number of calls and thread steps made on the pool
    tb,            \* TokenBucketRateLimiter: capacity, tokens, rate, ...
    tb_time,       \* time.time(), as the token bucket reads it
    tb_ret,        \* the last call on the token bucket: [op, tokens, ret]
    tb_admitted,   \* time -> the total cost of the requests admitted then
    sw,            \* SlidingWindowRateLimiter: window_size, max_requests, ...
    sw_config,     \* its RateLimitConfig
    sw_time,       \* time.time(), as the sliding window reads it
    sw_ret,        \* the last call on it: [op, at, seen, ret]
    sw_admitted,   \* the times of all requests it admitted
    ad,            \* AdaptiveRateLimiter: rates, limiter, recent_failures, ...
    ad_time,       \* time.time(), as the adaptive limiter reads it
    ad_ret,        \* the last call on it: [op, at, ret]
    ad_changed,    \* the time current_rate last changed (-1: it never did)
    hc,            \* AdvancedHealthChecker: status, counters, history
    hc_config,     \* its HealthCheckConfig: the two thresholds
    hc_ret         \* the status of the last check result

rrVars == <<rr, rr_servers, rr_ret, rr_calls, rr_log, rr_threads>>
wrrVars == <<wrr, wrr_backends, wrr_ret, wrr_fresh, wrr_log>>
lcVars == <<lc, lc_ret, lc_sel, lc_seen>>
iphVars == <<iph, iph_ret, iph_assigned>>
cbVars == <<cb, cb_config, now, in_flight, cb_ret, cb_opened_at, cb_consec,
            cb_probe, cb_episode>>
poolVars == <<pool, pool_config, pool_time, pool_loops, pool_acq, pool_held,
              pool_ret, pool_phase, pool_steps>>
tbVars == <<tb, tb_time, tb_ret, tb_admitted>>
swVars == <<sw, sw_config, sw_time, sw_ret, sw_admitted>>
adVars == <<ad, ad_time, ad_ret, ad_changed>>
rlVars == <<tbVars, swVars, adVars>>
hcVars == <<hc, hc_config, hc_ret>>
vars == <<rrVars, wrrVars, lcVars, iphVars, cbVars, poolVars, rlVars, hcVars>>

----------------------------------------------------------------------------
(* Bounds of the model and the values inputs are drawn from.               *)

MaxCalls == 7
MaxWeight == 6
MaxConnections == 8
MaxRequests == 4
MaxThreshold == 3
MaxTimeout == 2
MaxTime == 5
MaxInFlight == 2
MaxFailures == 4
MaxPoolSize == 2
MaxSteps == 6
MaxBurst == 2
MaxCost == 2
MaxLimiterCalls == 4
MaxLimiterTime == 5
MaxBriefSamples == 11
MaxHalfIntervals == 5
MaxAdaptiveCalls == 1
MaxSamples == 22
MaxIntervals == 12
MaxChecks == 6

None == "None"

Range(s) == {s[i] : i \in 1..Len(s)}

\* The backends registered with the balancer, in registration order.
Registered == <<"b1", "b2", "b3">>
Backends == Range(Registered)

\* Every list of distinct backends, the empty list included.
BackendLists ==
    {s \in UNION {[1..n -> Backends] : n \in 0..Cardinality(Backends)} :
        \A i, j \in 1..Len(s) : i # j => s[i] # s[j]}

\* The lists a health filter leaves of the registered list: its sublists,
\* in its order.
Position(b) == CHOOSE i \in 1..Len(Registered) : Registered[i] = b

EligibleLists ==
    {s \in BackendLists :
        \A i, j \in 1..Len(s) : i < j => Position(s[i]) < Position(s[j])}

Count(s, x) == Cardinality({i \in 1..Len(s) : s[i] = x})

\* The last n elements of s.
LastN(s, n) == IF Len(s) <= n THEN s ELSE SubSeq(s, Len(s) - n + 1, Len(s))

----------------------------------------------------------------------------
(* Round robin: src/src/plugins/round_robin.py                             *)

RRInit == [current_index |-> 0]

\* select_server with the index advanced by the length plus one: a wrap
\* that skips the first server of every round.
RRSelectServerSkips(r, servers) ==
    IF Len(servers) = 0
    THEN [obj |-> r, ret |-> None]
    ELSE IF r.current_index >= Len(servers)
    THEN [obj |-> r, ret |-> "IndexError"]
    ELSE [obj |-> [r EXCEPT !.current_index =
                       (r.current_index + 1) % (Len(servers) + 1)],
          ret |-> servers[r.current_index + 1]]

\* select_server without the test for an empty list.
RRSelectServerNoTest(r, servers) ==
    IF r.current_index >= Len(servers)
    THEN [obj |-> r, ret |-> "IndexError"]
    ELSE [obj |-> [r EXCEPT !.current_index =
                       (r.current_index + 1) % Len(servers)],
          ret |-> servers[r.current_index + 1]]

\* select_server(servers): the list is indexed at current_index as it is
\* (an index past the end raises IndexError before anything is assigned),
\* then the index advances modulo the length.
RRSelectServer(r, servers) ==
    IF Len(servers) = 0
    THEN [obj |-> r, ret |-> None]
    ELSE IF r.current_index >= Len(servers)
    THEN [obj |-> r, ret |-> "IndexError"]
    ELSE [obj |-> [r EXCEPT !.current_index =
                       (r.current_index + 1) % Len(servers)],
          ret |-> servers[r.current_index + 1]]

\* reset()
RRResetObj(r) == [r EXCEPT !.current_index = 0]

RRSelect ==
    /\ rr_calls < MaxCalls
    /\ LET out == RRSelectServer(rr, rr_servers) IN
        /\ rr' = out.obj
        /\ rr_ret' = out.ret
        /\ rr_calls' = rr_calls + 1
        /\ rr_log' = Append(rr_log, out.ret)
    /\ UNCHANGED <<rr_servers, rr_threads, wrrVars, lcVars, iphVars, cbVars,
                   poolVars, rlVars, hcVars>>

\* select_server(servers) on the list the health filter left this time.
RRSelectFrom(servers) ==
    /\ LET out == RRSelectServer(rr, servers) IN
        /\ rr' = out.obj
        /\ rr_ret' = out.ret
        /\ rr_servers' = servers
    /\ UNCHANGED <<rr_calls, rr_log, rr_threads, wrrVars, lcVars, iphVars,
                   cbVars, poolVars, rlVars, hcVars>>

RRReset ==
    /\ rr_calls > 0
    /\ rr' = RRResetObj(rr)
    /\ rr_ret' = None
    /\ rr_calls' = 0
    /\ rr_log' = <<>>
    /\ UNCHANGED <<rr_servers, rr_threads, wrrVars, lcVars, iphVars, cbVars,
                   poolVars, rlVars, hcVars>>

\* select_server called from several threads.  The class has no lock, and
\* the interpreter may switch threads between the read of current_index
\* that picks the server, the read that computes the next index, and the
\* store of the next index.
Threads == {"t1", "t2"}

RRIdle == [pc |-> "idle", selected_server |-> None, next_index |-> 0]

RROthers == <<wrrVars, lcVars, iphVars, cbVars, poolVars, rlVars, hcVars>>

\* selected_server = servers[self.current_index], after the test for an
\* empty list
RRThreadSelect(t) ==
    /\ rr_threads[t].pc = "idle"
    /\ rr_calls < MaxCalls
    /\ rr_calls' = rr_calls + 1
    /\ IF Len(rr_servers) = 0 \/ rr.current_index >= Len(rr_servers)
       THEN /\ rr_ret' = IF Len(rr_servers) = 0 THEN None ELSE "IndexError"
            /\ rr_log' = Append(rr_log, rr_ret')
            /\ UNCHANGED rr_threads
       ELSE /\ rr_threads' =
                  [rr_threads EXCEPT ![t] =
                      [pc |-> "selected",
                       selected_server |-> rr_servers[rr.current_index + 1],
                       next_index |-> 0]]
            /\ UNCHANGED <<rr_ret, rr_log>>
    /\ UNCHANGED <<rr, rr_servers, RROthers>>

\* the right-hand side (self.current_index + 1) % len(servers)
RRThreadNext(t) ==
    /\ rr_threads[t].pc = "selected"
    /\ rr_threads' =
          [rr_threads EXCEPT ![t].pc = "computed",
                             ![t].next_index =
                                 (rr.current_index + 1) % Len(rr_servers)]
    /\ UNCHANGED <<rr, rr_servers, rr_ret, rr_calls, rr_log, RROthers>>

\* the store to self.current_index and the return
RRThreadStore(t) ==
    /\ rr_threads[t].pc = "computed"
    /\ rr' = [rr EXCEPT !.current_index = rr_threads[t].next_index]
    /\ rr_ret' = rr_threads[t].selected_server
    /\ rr_log' = Append(rr_log, rr_ret')
    /\ rr_threads' = [rr_threads EXCEPT ![t] = RRIdle]
    /\ UNCHANGED <<rr_servers, rr_calls, RROthers>>

----------------------------------------------------------------------------
(* Weighted round robin: src/src/plugins/weighted_round_robin.py           *)

EmptyMap == [x \in {} |-> 0]

WRRInit ==
    [current_index |-> 0, current_weight |-> 0, max_weight |-> 0,
     gcd_weight |-> 0, backend_weights |-> EmptyMap]

\* math.gcd
RECURSIVE Gcd(_, _)
Gcd(a, b) == IF b = 0 THEN a ELSE Gcd(b, a % b)

\* max(weights) and _gcd_list(weights) over the values of a weight map.
RECURSIVE MaxOf(_)
MaxOf(S) ==
    IF S = {} THEN 0
    ELSE LET x == CHOOSE y \in S : TRUE
             m == MaxOf(S \ {x})
         IN IF x > m THEN x ELSE m

RECURSIVE GcdOf(_)
GcdOf(S) ==
    IF S = {} THEN 0
    ELSE LET x == CHOOSE y \in S : TRUE IN Gcd(x, GcdOf(S \ {x}))

Values(m) == {m[x] : x \in DOMAIN m}

\* _recalculate_weights
RecalculateWeights(w) ==
    IF DOMAIN w.backend_weights = {}
    THEN [w EXCEPT !.max_weight = 0, !.gcd_weight = 0]
    ELSE [w EXCEPT !.max_weight = MaxOf(Values(w.backend_weights)),
                   !.gcd_weight = GcdOf(Values(w.backend_weights))]

\* The weights callers pass to set_backend_weight: the parameter is an
\* unchecked int.
Weights == (0 - 1)..MaxWeight

\* set_backend_weight that turns away only the weights below zero.
SetBackendWeightAcceptsZero(w, backend_id, weight) ==
    IF weight < 0
    THEN [obj |-> w, ret |-> "ValueError"]
    ELSE [obj |-> RecalculateWeights(
                      [w EXCEPT !.backend_weights =
                          [x \in DOMAIN w.backend_weights \cup {backend_id} |->
                              IF x = backend_id THEN weight
                              ELSE w.backend_weights[x]]]),
          ret |-> None]

\* set_backend_weight(backend_id, weight)
SetBackendWeight(w, backend_id, weight) ==
    IF weight <= 0
    THEN [obj |-> w, ret |-> "ValueError"]
    ELSE [obj |-> RecalculateWeights(
                      [w EXCEPT !.backend_weights =
                          [x \in DOMAIN w.backend_weights \cup {backend_id} |->
                              IF x = backend_id THEN weight
                              ELSE w.backend_weights[x]]]),
          ret |-> None]

\* The loop of select_backend that gives every backend of the list that has
\* no weight the default weight 1.
RECURSIVE EnsureWeights(_, _, _)
EnsureWeights(w, backends, i) ==
    IF i > Len(backends) THEN w
    ELSE IF backends[i] \in DOMAIN w.backend_weights
    THEN EnsureWeights(w, backends, i + 1)
    ELSE EnsureWeights(SetBackendWeight(w, backends[i], 1).obj, backends, i + 1)

\* backend_weights.get(backend, 1)
WeightOf(w, backend) ==
    IF backend \in DOMAIN w.backend_weights
    THEN w.backend_weights[backend] ELSE 1

\* The selection loop lowering current_weight by 1 instead of gcd_weight.
RECURSIVE SelectLoopStepOne(_, _)
SelectLoopStepOne(w, backends) ==
    LET idx == (w.current_index + 1) % Len(backends)
        dec == w.current_weight - 1
        cw == IF idx # 0 THEN w.current_weight
              ELSE IF dec <= 0 THEN w.max_weight ELSE dec
        w1 == [w EXCEPT !.current_index = idx, !.current_weight = cw]
    IN IF idx = 0 /\ cw = 0
       THEN [obj |-> w1, ret |-> None]
       ELSE IF WeightOf(w1, backends[idx + 1]) >= cw
       THEN [obj |-> w1, ret |-> backends[idx + 1]]
       ELSE SelectLoopStepOne(w1, backends)

\* The while True loop of select_backend.
RECURSIVE SelectLoop(_, _)
SelectLoop(w, backends) ==
    LET idx == (w.current_index + 1) % Len(backends)
        dec == w.current_weight - w.gcd_weight
        cw == IF idx # 0 THEN w.current_weight
              ELSE IF dec <= 0 THEN w.max_weight ELSE dec
        w1 == [w EXCEPT !.current_index = idx, !.current_weight = cw]
    IN IF idx = 0 /\ cw = 0
       THEN [obj |-> w1, ret |-> None]
       ELSE IF WeightOf(w1, backends[idx + 1]) >= cw
       THEN [obj |-> w1, ret |-> backends[idx + 1]]
       ELSE SelectLoop(w1, backends)

\* The number of passes the while True loop of select_backend makes.
RECURSIVE SelectLoopPasses(_, _)
SelectLoopPasses(w, backends) ==
    LET idx == (w.current_index + 1) % Len(backends)
        dec == w.current_weight - w.gcd_weight
        cw == IF idx # 0 THEN w.current_weight
              ELSE IF dec <= 0 THEN w.max_weight ELSE dec
        w1 == [w EXCEPT !.current_index = idx, !.current_weight = cw]
    IN IF idx = 0 /\ cw = 0 THEN 1
       ELSE IF WeightOf(w1, backends[idx + 1]) >= cw THEN 1
       ELSE 1 + SelectLoopPasses(w1, backends)

\* select_backend that returns the next backend of the list whatever its
\* weight.
WRRSelectBackendAnyWeight(w, backends) ==
    IF Len(backends) = 0
    THEN [obj |-> w, ret |-> None]
    ELSE LET w0 == EnsureWeights(w, backends, 1)
             idx == (w0.current_index + 1) % Len(backends)
             dec == w0.current_weight - w0.gcd_weight
             cw == IF idx # 0 THEN w0.current_weight
                   ELSE IF dec <= 0 THEN w0.max_weight ELSE dec
         IN [obj |-> [w0 EXCEPT !.current_index = idx, !.current_weight = cw],
             ret |-> backends[idx + 1]]

\* select_backend(backends)
WRRSelectBackend(w, backends) ==
    IF Len(backends) = 0
    THEN [obj |-> w, ret |-> None]
    ELSE SelectLoop(EnsureWeights(w, backends, 1), backends)

\* The weights of the backends of a list, and the length of one full cycle
\* over it: sum(wi) / gcd(wi).
ListWeights(w, backends) == {WeightOf(w, backends[i]) : i \in 1..Len(backends)}

RECURSIVE SumWeights(_, _, _)
SumWeights(w, backends, i) ==
    IF i > Len(backends) THEN 0
    ELSE WeightOf(w, backends[i]) + SumWeights(w, backends, i + 1)

CycleLen(w, backends) ==
    SumWeights(w, backends, 1) \div GcdOf(ListWeights(w, backends))

WRRSetWeight(b, weight) ==
    /\ LET out == SetBackendWeight(wrr, b, weight) IN
        /\ wrr' = out.obj
        /\ wrr_ret' = out.ret
        /\ wrr_fresh' = (wrr_fresh /\ (wrr_log = <<>> \/ out.ret = "ValueError"))
        /\ wrr_log' = IF wrr_fresh' THEN wrr_log ELSE <<>>
    /\ UNCHANGED <<wrr_backends, rrVars, lcVars, iphVars, cbVars, poolVars,
                   rlVars, hcVars>>

WRRSelect ==
    /\ LET out == WRRSelectBackend(wrr, wrr_backends) IN
        /\ wrr' = out.obj
        /\ wrr_ret' = out.ret
        /\ wrr_log' = IF wrr_fresh /\ Len(wrr_backends) > 0
                      THEN LastN(Append(wrr_log, out.ret),
                                 CycleLen(out.obj, wrr_backends))
                      ELSE <<>>
    /\ UNCHANGED <<wrr_backends, wrr_fresh, rrVars, lcVars, iphVars, cbVars,
                   poolVars, rlVars, hcVars>>

\* select_backend(backends) on the list the health filter left this time.
WRRSelectFrom(backends) ==
    /\ LET out == WRRSelectBackend(wrr, backends) IN
        /\ wrr' = out.obj
        /\ wrr_ret' = out.ret
        /\ wrr_backends' = backends
    /\ UNCHANGED <<wrr_fresh, wrr_log, rrVars, lcVars, iphVars, cbVars,
                   poolVars, rlVars, hcVars>>

----------------------------------------------------------------------------
(* Least connections: src/src/plugins/least_connections.py                 *)

\* connections is a defaultdict(int): a server that is no key counts 0, and
\* reading it makes it a key.
ConnOf(l, server) ==
    IF server \in DOMAIN l.connections THEN l.connections[server] ELSE 0

\* float('inf'): above every count the model reaches.
Infinity == MaxConnections + 1

\* __init__(servers), servers non-empty.
LCInit(servers) == [servers |-> servers, connections |-> EmptyMap]

\* The scan taking the last of the servers with the minimal count (<= for <).
RECURSIVE LCScanLast(_, _, _, _)
LCScanLast(l, i, min_connections, selected_server) ==
    IF i > Len(l.servers) THEN selected_server
    ELSE IF ConnOf(l, l.servers[i]) <= min_connections
    THEN LCScanLast(l, i + 1, ConnOf(l, l.servers[i]), l.servers[i])
    ELSE LCScanLast(l, i + 1, min_connections, selected_server)

\* The scan of get_next_server over servers[i..]: the first server whose
\* count is strictly below the minimum seen so far replaces it.
RECURSIVE LCScan(_, _, _, _)
LCScan(l, i, min_connections, selected_server) ==
    IF i > Len(l.servers) THEN selected_server
    ELSE IF ConnOf(l, l.servers[i]) < min_connections
    THEN LCScan(l, i + 1, ConnOf(l, l.servers[i]), l.servers[i])
    ELSE LCScan(l, i + 1, min_connections, selected_server)

\* connections after the scan has read every server of the list, with the
\* selected server's count raised by one.
LCTouched(l, selected_server) ==
    [x \in DOMAIN l.connections \cup Range(l.servers) |->
        IF x = selected_server THEN ConnOf(l, x) + 1 ELSE ConnOf(l, x)]

\* get_next_server()
GetNextServer(l) ==
    IF Len(l.servers) = 0
    THEN [obj |-> l, ret |-> None]
    ELSE LET selected_server == LCScan(l, 1, Infinity, None) IN
         [obj |-> [l EXCEPT !.connections = LCTouched(l, selected_server)],
          ret |-> selected_server]

\* release_connection without the test for a count above zero.
ReleaseConnectionUnfloored(l, server) ==
    IF server \in DOMAIN l.connections
    THEN [l EXCEPT !.connections[server] = @ - 1]
    ELSE l

\* release_connection(server)
ReleaseConnection(l, server) ==
    IF server \in DOMAIN l.connections /\ l.connections[server] > 0
    THEN [l EXCEPT !.connections[server] = @ - 1]
    ELSE l

\* add_server(server)
AddServer(l, server) ==
    IF server \in Range(l.servers) THEN l
    ELSE [l EXCEPT !.servers = Append(@, server),
                   !.connections = [x \in DOMAIN @ \cup {server} |->
                                       IF x = server THEN 0 ELSE @[x]]]

\* list.remove(x): the first occurrence goes.
RECURSIVE ListRemove(_, _)
ListRemove(s, x) ==
    IF s = <<>> THEN s
    ELSE IF Head(s) = x THEN Tail(s)
    ELSE <<Head(s)>> \o ListRemove(Tail(s), x)

\* remove_server(server)
RemoveServer(l, server) ==
    IF server \in Range(l.servers)
    THEN [obj |-> [l EXCEPT !.servers = ListRemove(@, server),
                            !.connections =
                                [x \in DOMAIN @ \ {server} |-> @[x]]],
          ret |-> TRUE]
    ELSE [obj |-> l, ret |-> FALSE]

\* reset_connections()
ResetConnections(l) ==
    [l EXCEPT !.connections =
        [x \in DOMAIN @ \cup Range(l.servers) |->
            IF x \in Range(l.servers) THEN 0 ELSE @[x]]]

LCCall(op, arg, ret) == [op |-> op, arg |-> arg, ret |-> ret]

LCGetNextServer ==
    /\ LET out == GetNextServer(lc) IN
        /\ out.ret # None => ConnOf(lc, out.ret) < MaxConnections
        /\ lc' = out.obj
        /\ lc_ret' = LCCall("get_next_server", None, out.ret)
        /\ lc_sel' = IF out.ret = None THEN lc_sel
                      ELSE [server |-> out.ret, released |-> 0]
    /\ lc_seen' = 0 - 1
    /\ UNCHANGED <<rrVars, wrrVars, iphVars, cbVars, poolVars,
                   rlVars, hcVars>>

\* The count release_connection reads, when the server has one.
LCSeen(l, server) ==
    IF server \in DOMAIN l.connections THEN l.connections[server] ELSE 0 - 1

\* release_connection(server) by the caller of an earlier selection.
LCReleaseConnection(server) ==
    /\ lc' = ReleaseConnection(lc, server)
    /\ lc_ret' = LCCall("release_connection", server, None)
    /\ lc_seen' = LCSeen(lc, server)
    /\ UNCHANGED lc_sel
    /\ UNCHANGED <<rrVars, wrrVars, iphVars, cbVars, poolVars,
                   rlVars, hcVars>>

\* release_connection(server) by the caller of the latest selection, who
\* may call it a second time for that selection.
LCReleaseSelection ==
    /\ lc_sel.server # None
    /\ lc_sel.released < 2
    /\ lc' = ReleaseConnection(lc, lc_sel.server)
    /\ lc_ret' = LCCall("release_connection", lc_sel.server, None)
    /\ lc_seen' = LCSeen(lc, lc_sel.server)
    /\ lc_sel' = [lc_sel EXCEPT !.released = @ + 1]
    /\ UNCHANGED <<rrVars, wrrVars, iphVars, cbVars, poolVars,
                   rlVars, hcVars>>

LCAddServer(server) ==
    /\ lc' = AddServer(lc, server)
    /\ lc_ret' = LCCall("add_server", server, None)
    /\ lc_seen' = 0 - 1
    /\ UNCHANGED lc_sel
    /\ UNCHANGED <<rrVars, wrrVars, iphVars, cbVars, poolVars,
                   rlVars, hcVars>>

LCRemoveServer(server) ==
    /\ LET out == RemoveServer(lc, server) IN
        /\ lc' = out.obj
        /\ lc_ret' = LCCall("remove_server", server, out.ret)
    /\ lc_seen' = 0 - 1
    /\ UNCHANGED lc_sel
    /\ UNCHANGED <<rrVars, wrrVars, iphVars, cbVars, poolVars,
                   rlVars, hcVars>>

LCResetConnections ==
    /\ lc' = ResetConnections(lc)
    /\ lc_ret' = LCCall("reset_connections", None, None)
    /\ lc_seen' = 0 - 1
    /\ UNCHANGED lc_sel
    /\ UNCHANGED <<rrVars, wrrVars, iphVars, cbVars, poolVars,
                   rlVars, hcVars>>

----------------------------------------------------------------------------
(* IP hash: src/src/plugins/ip_hash.py                                     *)

\* The client addresses requests come from; "" is a request without one.
Clients == {"192.168.1.100", "10.0.0.4", ""}

\* int(hashlib.md5(client_ip).hexdigest(), 16) modulo 6: the residue decides
\* the hash modulo every list length that divides 6.
Md5Mod6(client_ip) ==
    CASE client_ip = "192.168.1.100" -> 0
      [] client_ip = "10.0.0.4" -> 5

\* _hash_ip(client_ip, backend_count)
HashIp(client_ip, backend_count) == Md5Mod6(client_ip) % backend_count

IPHInit ==
    [backend_cache |-> EmptyMap,
     stats |-> [total_requests |-> 0, cache_hits |-> 0, unique_clients |-> 0]]

\* The part of select_backend after the cache lookup: hash, select, cache.
IPHAssign(p, backends, client_ip) ==
    LET selected_backend == backends[HashIp(client_ip, Len(backends)) + 1]
        q == IF client_ip \in DOMAIN p.backend_cache THEN p
             ELSE [p EXCEPT !.stats.unique_clients = @ + 1]
    IN [obj |-> [q EXCEPT !.backend_cache =
                    [x \in DOMAIN @ \cup {client_ip} |->
                        IF x = client_ip THEN selected_backend ELSE @[x]]],
        ret |-> selected_backend]

\* select_backend that hashes afresh on every call and never reads the cache.
IPHSelectBackendNoCache(p, backends, client_ip) ==
    IF Len(backends) = 0 THEN [obj |-> p, ret |-> None]
    ELSE IF client_ip = "" THEN [obj |-> p, ret |-> backends[1]]
    ELSE IPHAssign([p EXCEPT !.stats.total_requests = @ + 1],
                   backends, client_ip)

\* select_backend that returns a cached backend without looking for it in
\* the list.
IPHSelectBackendTrustsCache(p, backends, client_ip) ==
    IF Len(backends) = 0 THEN [obj |-> p, ret |-> None]
    ELSE IF client_ip = "" THEN [obj |-> p, ret |-> backends[1]]
    ELSE LET p1 == [p EXCEPT !.stats.total_requests = @ + 1] IN
         IF client_ip \in DOMAIN p1.backend_cache
         THEN [obj |-> [p1 EXCEPT !.stats.cache_hits = @ + 1],
               ret |-> p1.backend_cache[client_ip]]
         ELSE IPHAssign(p1, backends, client_ip)

\* select_backend(backends, client_ip)
IPHSelectBackend(p, backends, client_ip) ==
    IF Len(backends) = 0 THEN [obj |-> p, ret |-> None]
    ELSE IF client_ip = "" THEN [obj |-> p, ret |-> backends[1]]
    ELSE LET p1 == [p EXCEPT !.stats.total_requests = @ + 1] IN
         IF client_ip \in DOMAIN p1.backend_cache
         THEN IF p1.backend_cache[client_ip] \in Range(backends)
              THEN [obj |-> [p1 EXCEPT !.stats.cache_hits = @ + 1],
                    ret |-> p1.backend_cache[client_ip]]
              ELSE IPHAssign(
                       [p1 EXCEPT !.backend_cache =
                           [x \in DOMAIN @ \ {client_ip} |-> @[x]]],
                       backends, client_ip)
         ELSE IPHAssign(p1, backends, client_ip)

\* remove_backend that empties the cache.
RemoveBackendClearsAll(p, backend_id) ==
    [p EXCEPT !.backend_cache = EmptyMap]

\* remove_backend(backend_id)
RemoveBackend(p, backend_id) ==
    LET clients_to_remove ==
            {ip \in DOMAIN p.backend_cache : p.backend_cache[ip] = backend_id}
    IN [p EXCEPT !.backend_cache =
           [x \in DOMAIN @ \ clients_to_remove |-> @[x]]]

\* clear_cache()
ClearCache(p) ==
    [p EXCEPT !.backend_cache = EmptyMap, !.stats.unique_clients = 0]

IPHCall(op, backends, client_ip, backend_id, cached, ret) ==
    [op |-> op, backends |-> backends, client_ip |-> client_ip,
     backend_id |-> backend_id, cached |-> cached, ret |-> ret]

\* The cache entry select_backend finds for the client, if it looks.
IPHCached(p, backends, client_ip) ==
    IF Len(backends) > 0 /\ client_ip \in DOMAIN p.backend_cache
    THEN p.backend_cache[client_ip] ELSE None

IPHRemoveBackend(backend_id) ==
    /\ iph' = RemoveBackend(iph, backend_id)
    /\ iph_ret' = IPHCall("remove_backend", <<>>, "", backend_id,
                          IF \E ip \in DOMAIN iph.backend_cache :
                                 iph.backend_cache[ip] = backend_id
                          THEN backend_id ELSE None,
                          None)
    /\ iph_assigned' = [x \in {c \in DOMAIN iph_assigned :
                                   iph_assigned[c] # backend_id} |->
                           iph_assigned[x]]
    /\ UNCHANGED <<rrVars, wrrVars, lcVars, cbVars, poolVars,
                   rlVars, hcVars>>

IPHClearCache ==
    /\ iph' = ClearCache(iph)
    /\ iph_ret' = IPHCall("clear_cache", <<>>, "", None, None, None)
    /\ iph_assigned' = EmptyMap
    /\ UNCHANGED <<rrVars, wrrVars, lcVars, cbVars, poolVars,
                   rlVars, hcVars>>

IPHSelect(backends, client_ip) ==
    /\ iph.stats.total_requests < MaxRequests
    /\ LET out == IPHSelectBackend(iph, backends, client_ip) IN
        /\ iph' = out.obj
        /\ iph_ret' = IPHCall("select_backend", backends, client_ip, None,
                              IPHCached(iph, backends, client_ip), out.ret)
        /\ iph_assigned' =
              IF client_ip = "" \/ out.ret = None THEN iph_assigned
              ELSE [x \in DOMAIN iph_assigned \cup {client_ip} |->
                       IF x = client_ip THEN out.ret ELSE iph_assigned[x]]
    /\ UNCHANGED <<rrVars, wrrVars, lcVars, cbVars, poolVars,
                   rlVars, hcVars>>

----------------------------------------------------------------------------
(* Circuit breaker: src/src/reliability/circuit_breaker.py                 *)
(* The stats dictionary is written by the handlers and read by get_stats   *)
(* alone; it is left out.  Every handler runs under the breaker's lock, so *)
(* each is one step; call() releases the lock between admitting the        *)
(* request and recording its outcome, so it is two.                        *)

CLOSED == "closed"
OPEN == "open"
HALF_OPEN == "half_open"

CBInit ==
    [state |-> CLOSED, failure_count |-> 0, success_count |-> 0,
     last_failure_time |-> 0, call_history |-> <<>>]

\* CircuitBreakerConfig()
DefaultConfig ==
    [failure_threshold |-> 5, success_threshold |-> 2, timeout |-> 60,
     window_size |-> 10]

\* The configurations breakers are built with.
CBConfigs ==
    [failure_threshold : 1..MaxThreshold, success_threshold : 1..MaxThreshold,
     timeout : 1..MaxTimeout, window_size : {2}]

\* _change_state that does not stamp the time of a transition into Open.
ChangeStateKeepsTime(b, new_state, t) ==
    IF b.state = new_state THEN b
    ELSE IF new_state = CLOSED
    THEN [b EXCEPT !.state = new_state, !.failure_count = 0,
                   !.success_count = 0, !.call_history = <<>>]
    ELSE [b EXCEPT !.state = new_state]

\* _change_state(new_state) at time t
ChangeState(b, new_state, t) ==
    IF b.state = new_state THEN b
    ELSE IF new_state = OPEN
    THEN [b EXCEPT !.state = new_state, !.last_failure_time = t]
    ELSE IF new_state = CLOSED
    THEN [b EXCEPT !.state = new_state, !.failure_count = 0,
                   !.success_count = 0, !.call_history = <<>>]
    ELSE [b EXCEPT !.state = new_state]

\* _should_attempt_reset that does not wait for the timeout.
ShouldAttemptResetNoWait(b, cfg, t) == b.state = OPEN

\* _should_attempt_reset() at time t
ShouldAttemptReset(b, cfg, t) ==
    /\ b.state = OPEN
    /\ t - b.last_failure_time >= cfg.timeout

\* call_history.append(outcome), trimmed to window_size
PushHistory(b, cfg, outcome) ==
    [b EXCEPT !.call_history =
        IF Len(@) + 1 > cfg.window_size THEN Tail(Append(@, outcome))
        ELSE Append(@, outcome)]

\* _record_success that leaves failure_count alone in Closed.
RecordSuccessKeepsFailures(b, cfg, t) ==
    LET b1 == PushHistory(b, cfg, TRUE) IN
    IF b1.state = HALF_OPEN
    THEN LET b2 == [b1 EXCEPT !.success_count = @ + 1] IN
         IF b2.success_count >= cfg.success_threshold
         THEN ChangeState(b2, CLOSED, t) ELSE b2
    ELSE b1

\* _record_success that closes a HalfOpen breaker on the first success.
RecordSuccessClosesAtOnce(b, cfg, t) ==
    LET b1 == PushHistory(b, cfg, TRUE) IN
    IF b1.state = HALF_OPEN
    THEN ChangeState([b1 EXCEPT !.success_count = @ + 1], CLOSED, t)
    ELSE IF b1.state = CLOSED
    THEN [b1 EXCEPT !.failure_count = 0]
    ELSE b1

\* _record_success()
RecordSuccess(b, cfg, t) ==
    LET b1 == PushHistory(b, cfg, TRUE) IN
    IF b1.state = HALF_OPEN
    THEN LET b2 == [b1 EXCEPT !.success_count = @ + 1] IN
         IF b2.success_count >= cfg.success_threshold
         THEN ChangeState(b2, CLOSED, t) ELSE b2
    ELSE IF b1.state = CLOSED
    THEN [b1 EXCEPT !.failure_count = 0]
    ELSE b1

\* _record_failure()
RecordFailure(b, cfg, t) ==
    LET b1 == [PushHistory(b, cfg, FALSE) EXCEPT !.failure_count = @ + 1] IN
    IF b1.state = HALF_OPEN
    THEN ChangeState(b1, OPEN, t)
    ELSE IF b1.failure_count >= cfg.failure_threshold
    THEN ChangeState(b1, OPEN, t)
    ELSE b1

\* The head of call() with a timeout test that does not look at the state.
CallEnterNoStateTest(b, cfg, t) ==
    LET b1 == IF t - b.last_failure_time >= cfg.timeout
              THEN ChangeState(b, HALF_OPEN, t) ELSE b
    IN IF b1.state = OPEN
       THEN [obj |-> b1, ret |-> "CircuitOpen"]
       ELSE [obj |-> b1, ret |-> "invoked"]

\* The locked head of call(): ret tells whether func goes on to be invoked.
CallEnter(b, cfg, t) ==
    LET b1 == IF ShouldAttemptReset(b, cfg, t)
              THEN ChangeState(b, HALF_OPEN, t) ELSE b
    IN IF b1.state = OPEN
       THEN [obj |-> b1, ret |-> "CircuitOpen"]
       ELSE [obj |-> b1, ret |-> "invoked"]

\* is_available() at time t: the breaker is left as it is.
IsAvailable(b, cfg, t) ==
    IF ShouldAttemptReset(b, cfg, t) THEN TRUE ELSE b.state # OPEN

\* reset()
CBResetObj(b, t) == ChangeState(b, CLOSED, t)

\* What a caller arriving at time t finds.
Situation(b, cfg, opened_at, t) ==
    IF b.state # OPEN THEN b.state
    ELSE IF t - opened_at < cfg.timeout THEN "open_cooling"
    ELSE "open_expired"

CBCall(op, ret) ==
    [op |-> op, pre |-> Situation(cb, cb_config, cb_opened_at, now),
     ret |-> ret]

\* The history variables after a step that leaves the breaker as cb' and
\* recorded outcome (TRUE, FALSE, or None when none was recorded).
CBHistory(outcome) ==
    /\ cb_opened_at' = IF cb.state # OPEN /\ cb'.state = OPEN THEN now
                       ELSE cb_opened_at
    /\ cb_consec' = IF cb'.state # CLOSED \/ cb.state # CLOSED THEN 0
                    ELSE IF outcome = "success" THEN 0
                    ELSE IF outcome = "failure" THEN cb_consec + 1
                    ELSE cb_consec
    /\ cb_probe' = IF outcome = "failure" \/ outcome = "reset" THEN -1
                   ELSE IF outcome = "success" /\ cb_probe >= 0
                   THEN (IF cb_probe < cb_config.success_threshold
                         THEN cb_probe + 1 ELSE cb_probe)
                   ELSE IF outcome = "probe" /\ cb_probe < 0 THEN 0
                   ELSE cb_probe
    /\ cb_episode' = IF cb'.state # HALF_OPEN THEN 0
                     ELSE IF cb.state # HALF_OPEN THEN 0
                     ELSE IF outcome = "success" THEN cb_episode + 1
                     ELSE cb_episode

OtherVars == <<rrVars, wrrVars, lcVars, iphVars, poolVars, rlVars, hcVars>>

CBTick ==
    /\ now < MaxTime
    /\ now' = now + 1
    /\ cb_ret' = CBCall("tick", None)
    /\ UNCHANGED <<cb, cb_config, in_flight, cb_opened_at, cb_consec,
                   cb_probe, cb_episode, OtherVars>>

\* call(func), up to the invocation of func.
CBCallEnter ==
    /\ in_flight < MaxInFlight
    /\ LET out == CallEnter(cb, cb_config, now) IN
        /\ cb' = out.obj
        /\ cb_ret' = CBCall("call", out.ret)
        /\ in_flight' = IF out.ret = "invoked" THEN in_flight + 1
                        ELSE in_flight
    /\ CBHistory(None)
    /\ UNCHANGED <<cb_config, now, OtherVars>>

\* is_available(), by a pipeline that sends the request when told true
\* (admit) or only filters on the answer.
CBIsAvailable(admit) ==
    /\ cb' = cb
    /\ LET ret == IsAvailable(cb, cb_config, now) IN
        /\ cb_ret' = CBCall("is_available", ret)
        /\ in_flight' = IF ret /\ admit /\ in_flight < MaxInFlight
                        THEN in_flight + 1 ELSE in_flight
        /\ CBHistory(IF ret /\ cb.state = OPEN THEN "probe" ELSE None)
    /\ UNCHANGED <<cb_config, now, OtherVars>>

\* The outcome of an admitted request is recorded: func returned.
CBRecordSuccess ==
    /\ in_flight > 0
    /\ cb' = RecordSuccess(cb, cb_config, now)
    /\ cb_ret' = CBCall("record_success", None)
    /\ in_flight' = in_flight - 1
    /\ CBHistory("success")
    /\ UNCHANGED <<cb_config, now, OtherVars>>

\* The outcome of an admitted request is recorded: func raised.
CBRecordFailure ==
    /\ in_flight > 0
    /\ cb.failure_count < MaxFailures
    /\ cb' = RecordFailure(cb, cb_config, now)
    /\ cb_ret' = CBCall("record_failure", None)
    /\ in_flight' = in_flight - 1
    /\ CBHistory("failure")
    /\ UNCHANGED <<cb_config, now, OtherVars>>

CBReset ==
    /\ cb' = CBResetObj(cb, now)
    /\ cb_ret' = CBCall("reset", None)
    /\ CBHistory("reset")
    /\ UNCHANGED <<cb_config, now, in_flight, OtherVars>>

----------------------------------------------------------------------------
(* The connection pool (src/src/core/connection_pool.py).                  *)
(*                                                                         *)
(* A PooledConnection is known by the number n of its connection_id        *)
(* "<backend>_conn_<n>"; self.connections maps these numbers to the        *)
(* objects, in insertion order, which is the order of the numbers.  The    *)
(* queue self.available holds references to the objects, so it is a        *)
(* sequence of numbers, and a reference stays in it when the object is     *)
(* deleted from self.connections.  use_count and backend_id are left out:  *)
(* no handler reads them.  A connection_factory, when one is given, is     *)
(* taken to return a new object at every call and not to raise.            *)
(*                                                                         *)
(* acquire() takes three steps, one for the wait on the queue and one for  *)
(* each block it runs under self.lock; every other handler runs under the  *)
(* lock from its first statement to its last and is one step.  pool_acq    *)
(* and pool_loops are the positions of the callers and of the maintenance  *)
(* threads; pool_held, pool_phase, pool_steps and pool_ret are history     *)
(* variables.                                                              *)

IDLE == "idle"
IN_USE == "in_use"
INVALID == "invalid"

\* The string that stands for the connection when there is no factory: the
\* same for every connection of the pool.
SimulatedConnection == <<"Connection to backend">>

\* What acquire() returns for None, and a connection no pool ever made.
NoConnection == <<>>
ForeignConnection == <<"foreign">>

Callers == {"t1", "t2"}

DefaultPoolConfig ==
    [min_connections |-> 5, max_connections |-> 20, idle_timeout |-> 300,
     max_lifetime |-> 3600, health_check_interval |-> 60]

\* The configurations checked: min_connections is not above
\* max_connections, and an idle connection times out before it reaches its
\* maximum lifetime, as with the defaults.
PoolConfigs ==
    {c \in [min_connections : 0..MaxPoolSize,
            max_connections : 1..MaxPoolSize, idle_timeout : {0},
            max_lifetime : {1}, health_check_interval : {1}] :
        c.min_connections <= c.max_connections}

\* ConnectionPool.__init__
PoolInit(connection_factory) ==
    [connection_factory |-> connection_factory,
     connections |-> EmptyMap,
     available |-> << >>,
     stats |-> [created_connections |-> 0, reused_connections |-> 0,
                closed_connections |-> 0, current_active |-> 0,
                current_idle |-> 0, pool_exhausted_count |-> 0],
     running |-> FALSE,
     lock |-> "free"]

\* len(self.connections)
PoolSize(p) == Cardinality(DOMAIN p.connections)

MinOf(S) == CHOOSE x \in S : \A y \in S : x <= y

Floor0(n) == IF n > 0 THEN n ELSE 0

\* PooledConnection.__init__
PooledConnection(connection_id, connection, t) ==
    [connection_id |-> connection_id, connection |-> connection,
     state |-> IDLE, created_at |-> t, last_used |-> t]

IsExpired(conn, max_lifetime, t) == (t - conn.created_at) > max_lifetime

IsIdleTimeout(conn, idle_timeout, t) ==
    IF conn.state # IDLE THEN FALSE
    ELSE (t - conn.last_used) > idle_timeout

MarkUsed(conn, t) == [conn EXCEPT !.state = IN_USE, !.last_used = t]

MarkIdle(conn, t) == [conn EXCEPT !.state = IDLE, !.last_used = t]

\* A mutant of _create_connection: the size check is missing.
CreateConnectionUnchecked(p, cfg, t) ==
    LET id == p.stats.created_connections
        conn == IF p.connection_factory = None THEN SimulatedConnection
                ELSE <<"connection", id>>
    IN [obj |-> [p EXCEPT
            !.connections = (id :> PooledConnection(id, conn, t)) @@ @,
            !.stats.created_connections = @ + 1,
            !.stats.current_idle = @ + 1],
        ret |-> <<id>>]

\* _create_connection(): ret is <<n>> for the connection made, <<>> for None.
CreateConnection(p, cfg, t) ==
    IF PoolSize(p) >= cfg.max_connections
    THEN [obj |-> p, ret |-> << >>]
    ELSE LET id == p.stats.created_connections
             conn == IF p.connection_factory = None THEN SimulatedConnection
                     ELSE <<"connection", id>>
         IN [obj |-> [p EXCEPT
                 !.connections = (id :> PooledConnection(id, conn, t)) @@ @,
                 !.stats.created_connections = @ + 1,
                 !.stats.current_idle = @ + 1],
             ret |-> <<id>>]

\* _close_connection(conn), conn being the object numbered id in the state
\* it has in self.connections.
CloseConnection(p, id) ==
    IF id \in DOMAIN p.connections
    THEN LET conn == p.connections[id] IN
         [p EXCEPT
            !.connections = [k \in DOMAIN @ \ {id} |-> @[k]],
            !.stats.closed_connections = @ + 1,
            !.stats.current_idle =
                IF conn.state = IDLE THEN Floor0(@ - 1) ELSE @,
            !.stats.current_active =
                IF conn.state = IDLE THEN @ ELSE Floor0(@ - 1)]
    ELSE p

RECURSIVE CloseAll(_, _)
CloseAll(p, ids) ==
    IF ids = {} THEN p
    ELSE CloseAll(CloseConnection(p, MinOf(ids)), ids \ {MinOf(ids)})

\* The loop of start(): n calls of _create_connection.
RECURSIVE CreateMany(_, _, _, _)
CreateMany(p, cfg, t, n) ==
    IF n = 0 THEN p
    ELSE CreateMany(CreateConnection(p, cfg, t).obj, cfg, t, n - 1)

\* A mutant of start(): the test of self.running is missing.
StartAgain(p, cfg, t) ==
    [obj |-> CreateMany([p EXCEPT !.running = TRUE], cfg, t,
                        cfg.min_connections),
     ret |-> "started"]

\* start(): ret tells whether a maintenance thread was started.
Start(p, cfg, t) ==
    IF p.running THEN [obj |-> p, ret |-> "running"]
    ELSE [obj |-> CreateMany([p EXCEPT !.running = TRUE], cfg, t,
                             cfg.min_connections),
          ret |-> "started"]

\* A stop() that takes the lock without "with" and leaves it held when the
\* iteration raises.
StopHoldsLock(p) ==
    LET q == [p EXCEPT !.running = FALSE] IN
    IF DOMAIN p.connections = {}
    THEN [obj |-> [q EXCEPT !.available = << >>], ret |-> None]
    ELSE [obj |-> [CloseConnection(q, MinOf(DOMAIN p.connections))
                       EXCEPT !.lock = "held"],
          ret |-> "RuntimeError"]

\* stop().  _close_connection deletes from self.connections while stop()
\* iterates over it, and the iterator raises RuntimeError at its next step:
\* only a pool without connections reaches connections.clear() and the
\* emptying of the queue.
Stop(p) ==
    LET q == [p EXCEPT !.running = FALSE] IN
    IF DOMAIN p.connections = {}
    THEN [obj |-> [q EXCEPT !.available = << >>], ret |-> None]
    ELSE [obj |-> CloseConnection(q, MinOf(DOMAIN p.connections)),
          ret |-> "RuntimeError"]

\* acquire(), self.available.get(timeout): the head of the queue, or
\* queue.Empty once the timeout has passed on an empty queue.
AcquireGet(p) ==
    IF p.available = << >> THEN [obj |-> p, ret |-> << >>]
    ELSE [obj |-> [p EXCEPT !.available = Tail(@)],
          ret |-> <<Head(p.available)>>]

\* acquire(), the first locked block, with the object taken from the queue.
AcquireReuse(p, id, t) ==
    IF id \in DOMAIN p.connections
    THEN [obj |-> [p EXCEPT
              !.connections[id] = MarkUsed(@, t),
              !.stats.reused_connections = @ + 1,
              !.stats.current_idle = Floor0(@ - 1),
              !.stats.current_active = @ + 1],
          how |-> "reused", conn |-> <<id>>,
          ret |-> p.connections[id].connection]
    ELSE [obj |-> p, how |-> "stale", conn |-> << >>, ret |-> NoConnection]

\* acquire(), the second locked block.
AcquireCreate(p, cfg, t) ==
    LET out == CreateConnection(p, cfg, t) IN
    IF out.ret # << >>
    THEN LET id == out.ret[1] IN
         [obj |-> [out.obj EXCEPT
              !.connections[id] = MarkUsed(@, t),
              !.stats.current_idle = Floor0(@ - 1),
              !.stats.current_active = @ + 1],
          how |-> "created", conn |-> <<id>>,
          ret |-> out.obj.connections[id].connection]
    ELSE [obj |-> [p EXCEPT !.stats.pool_exhausted_count = @ + 1],
          how |-> "exhausted", conn |-> << >>, ret |-> NoConnection]

\* The objects of self.connections whose connection equals the argument.
Matching(p, connection) ==
    {id \in DOMAIN p.connections :
        p.connections[id].connection = connection}

\* A mutant of release(): the counters are updated outside the loop.
ReleaseCounts(p, connection, t) ==
    LET q == [p EXCEPT !.stats.current_active = Floor0(@ - 1),
                       !.stats.current_idle = @ + 1]
    IN  IF Matching(p, connection) = {} THEN q
        ELSE LET id == MinOf(Matching(p, connection)) IN
             [q EXCEPT !.connections[id] = MarkIdle(@, t),
                       !.available = Append(@, id)]

\* release(connection): the first object of self.connections that holds it.
Release(p, connection, t) ==
    IF Matching(p, connection) = {} THEN p
    ELSE LET id == MinOf(Matching(p, connection)) IN
         [p EXCEPT !.connections[id] = MarkIdle(@, t),
                   !.available = Append(@, id),
                   !.stats.current_active = Floor0(@ - 1),
                   !.stats.current_idle = @ + 1]

\* _perform_maintenance(), the connections it marks for closing.
ConnectionsToClose(p, cfg, t) ==
    {id \in DOMAIN p.connections :
        /\ p.connections[id].state = IDLE
        /\ \/ IsExpired(p.connections[id], cfg.max_lifetime, t)
           \/ IsIdleTimeout(p.connections[id], cfg.idle_timeout, t)
        /\ PoolSize(p) > cfg.min_connections}

\* _perform_maintenance(), its last loop.
RECURSIVE EnsureMinimum(_, _, _)
EnsureMinimum(p, cfg, t) ==
    IF PoolSize(p) < cfg.min_connections
    THEN LET out == CreateConnection(p, cfg, t) IN
         IF out.ret # << >>
         THEN EnsureMinimum([out.obj EXCEPT
                                !.available = Append(@, out.ret[1])], cfg, t)
         ELSE p
    ELSE p

PerformMaintenance(p, cfg, t) ==
    EnsureMinimum(CloseAll(p, ConnectionsToClose(p, cfg, t)), cfg, t)

\* A caller that is not inside acquire().  Inside, pc is "waiting" (it waits
\* on the queue), "locked" (it took conn from the queue) or "create" (it goes
\* to the second locked block), and began is the phase of the pool when it
\* called.
NotCalling == [pc |-> "idle", conn |-> << >>, began |-> None]

\* The last step taken on the pool, as its callers saw it.
PoolCall(op, caller, how) == [op |-> op, caller |-> caller, how |-> how]

\* One more call or thread step on the pool: the runs checked make MaxSteps
\* of them, which bounds the clock, the counters, the queue and the number
\* of threads.  The steps that carry a call of acquire() to its return are
\* not counted: a call that was made is never cut short.  A block under
\* "with self.lock" is one step, taken when the lock is free and leaving it
\* free, on a return and on an exception alike.
PoolStep ==
    /\ pool_steps < MaxSteps
    /\ pool_steps' = pool_steps + 1

PoolOthers == <<rrVars, wrrVars, lcVars, iphVars, cbVars, rlVars, hcVars>>

PoolTick ==
    /\ PoolStep
    /\ pool_time' = pool_time + 1
    /\ pool_ret' = PoolCall("tick", None, None)
    /\ UNCHANGED <<pool, pool_config, pool_loops, pool_acq, pool_held,
                   pool_phase, PoolOthers>>

\* start(): a thread it starts stands at the while test of the loop.
PoolStart ==
    LET out == Start(pool, pool_config, pool_time) IN
    /\ PoolStep
    /\ pool.lock = "free"
    /\ pool' = out.obj
    /\ pool_loops' = IF out.ret = "started"
                     THEN [pool_loops EXCEPT !.test = @ + 1]
                     ELSE pool_loops
    /\ pool_phase' = "started"
    /\ pool_ret' = PoolCall("start", None, out.ret)
    /\ UNCHANGED <<pool_config, pool_time, pool_acq, pool_held, PoolOthers>>

PoolStop ==
    LET out == Stop(pool) IN
    /\ PoolStep
    /\ pool.lock = "free"
    /\ pool' = out.obj
    /\ pool_phase' = "stopped"
    /\ pool_ret' = PoolCall("stop", None, out.ret)
    /\ UNCHANGED <<pool_config, pool_time, pool_loops, pool_acq, pool_held,
                   PoolOthers>>

\* A caller that holds no connection calls acquire() and starts to wait on
\* the queue.
PoolAcquireCall(t) ==
    /\ PoolStep
    /\ pool_acq[t].pc = "idle"
    /\ ~pool_held[t].holding
    /\ pool_acq' = [pool_acq EXCEPT ![t] =
           [pc |-> "waiting", conn |-> << >>, began |-> pool_phase]]
    /\ pool_ret' = PoolCall("call", t, None)
    /\ UNCHANGED <<pool, pool_config, pool_time, pool_loops, pool_held,
                   pool_phase, PoolOthers>>

\* The wait ends: self.available.get(timeout) hands over the head of the
\* queue, or raises queue.Empty when the timeout has passed.
PoolAcquireGet(t) ==
    /\ pool_acq[t].pc = "waiting"
    /\ LET out == AcquireGet(pool) IN
        /\ pool' = out.obj
        /\ pool_acq' = [pool_acq EXCEPT ![t] =
               [@ EXCEPT !.pc = IF out.ret = << >> THEN "create" ELSE "locked",
                         !.conn = out.ret]]
        /\ pool_ret' = PoolCall("get", t, None)
    /\ UNCHANGED <<pool_config, pool_time, pool_loops, pool_held,
                   pool_phase, pool_steps, PoolOthers>>

\* acquire() goes on with the object it took from the queue.
PoolAcquireReuse(t) ==
    /\ pool_acq[t].pc = "locked"
    /\ pool.lock = "free"
    /\ LET out == AcquireReuse(pool, pool_acq[t].conn[1], pool_time) IN
        /\ pool' = out.obj
        /\ pool_acq' = [pool_acq EXCEPT ![t] =
               IF out.how = "reused" THEN NotCalling
               ELSE [@ EXCEPT !.pc = "create", !.conn = << >>]]
        /\ pool_held' = IF out.how = "reused"
                        THEN [pool_held EXCEPT ![t] =
                                [conn |-> out.conn, connection |-> out.ret,
                                 holding |-> TRUE]]
                        ELSE pool_held
        /\ pool_ret' = PoolCall("acquire", t, out.how)
    /\ UNCHANGED <<pool_config, pool_time, pool_loops, pool_phase,
                   pool_steps, PoolOthers>>

\* acquire() ends in its second locked block.
PoolAcquireCreate(t) ==
    /\ pool_acq[t].pc = "create"
    /\ pool.lock = "free"
    /\ LET out == AcquireCreate(pool, pool_config, pool_time) IN
        /\ pool' = out.obj
        /\ pool_acq' = [pool_acq EXCEPT ![t] =
                           NotCalling]
        /\ pool_held' = IF out.how = "created"
                        THEN [pool_held EXCEPT ![t] =
                                [conn |-> out.conn, connection |-> out.ret,
                                 holding |-> TRUE]]
                        ELSE pool_held
        /\ pool_ret' = PoolCall("acquire", t, out.how)
    /\ UNCHANGED <<pool_config, pool_time, pool_loops, pool_phase,
                   pool_steps, PoolOthers>>

\* What a caller may pass to release(): the connection its last acquire
\* returned, released already or not, or one the pool never made.
Releasable(t) ==
    {pool_held[t].connection, ForeignConnection} \ {NoConnection}

PoolRelease(t, connection) ==
    /\ PoolStep
    /\ pool_acq[t].pc = "idle"
    /\ pool.lock = "free"
    /\ pool' = Release(pool, connection, pool_time)
    /\ pool_held' = IF connection = pool_held[t].connection
                    THEN [pool_held EXCEPT ![t].holding = FALSE]
                    ELSE pool_held
    /\ pool_ret' = PoolCall("release", t,
                          IF connection = ForeignConnection THEN "foreign"
                          ELSE "held")
    /\ UNCHANGED <<pool_config, pool_time, pool_loops, pool_acq, pool_phase,
                   PoolOthers>>

\* _maintenance_loop(), the while test: into the sleep or out of the loop.
PoolLoopTest ==
    /\ PoolStep
    /\ pool_loops.test > 0
    /\ pool_loops' = IF pool.running
                     THEN [test |-> pool_loops.test - 1,
                           sleep |-> pool_loops.sleep + 1]
                     ELSE [pool_loops EXCEPT !.test = @ - 1]
    /\ pool_ret' = PoolCall("loop", None,
                          IF pool.running THEN "sleep" ELSE "exit")
    /\ UNCHANGED <<pool, pool_config, pool_time, pool_acq, pool_held,
                   pool_phase, PoolOthers>>

\* _maintenance_loop(), after the sleep: one maintenance pass.
PoolLoopPass ==
    /\ PoolStep
    /\ pool_loops.sleep > 0
    /\ pool.lock = "free"
    /\ pool' = PerformMaintenance(pool, pool_config, pool_time)
    /\ pool_loops' = [test |-> pool_loops.test + 1,
                      sleep |-> pool_loops.sleep - 1]
    /\ pool_ret' = PoolCall("maintenance", None, None)
    /\ UNCHANGED <<pool_config, pool_time, pool_acq, pool_held, pool_phase,
                   PoolOthers>>

----------------------------------------------------------------------------
(* The rate limiters (src/src/reliability/rate_limiter.py).  The source    *)
(* computes with floats; here a number of tokens, a rate (requests per     *)
(* second) and a response time (seconds) are held in thousandths, rounded  *)
(* down, and a time is a whole number of ticks, TicksPerSecond to the      *)
(* second.  The clock a limiter reads never runs backwards.                *)

Milli == 1000
TicksPerSecond == 2

Min(a, b) == IF a <= b THEN a ELSE b
Max(a, b) == IF a >= b THEN a ELSE b

\* RateLimitConfig, requests_per_second in thousandths
RateLimitConfig(requests_per_second, burst_size) ==
    [requests_per_second |-> requests_per_second, burst_size |-> burst_size]

\* RateLimitConfig(): 100 requests per second, bursts of 10
DefaultRateLimitConfig == RateLimitConfig(100 * Milli, 10)

\* The rates configured: 0.5, 1, 1.5 and 2.5 requests per second.
RequestRates == {Milli \div 2, Milli, (3 * Milli) \div 2, (5 * Milli) \div 2}

RateLimitConfigs ==
    {RateLimitConfig(r, b) : r \in RequestRates, b \in 1..MaxBurst}

\* What allow_request(tokens) is called with: nothing in the source narrows
\* the int it takes.
Costs == (0 - 1)..MaxCost

\* TokenBucketRateLimiter.__init__ at time t
TBInit(config, t) ==
    [capacity |-> Milli * config.burst_size,
     tokens |-> Milli * config.burst_size,
     rate |-> config.requests_per_second,
     last_update |-> t,
     stats |-> [total_requests |-> 0, accepted_requests |-> 0,
                rejected_requests |-> 0]]

\* _refill_tokens that does not stop at the capacity.
RefillTokensUncapped(b, t) ==
    LET elapsed == t - b.last_update
        tokens_to_add == (elapsed * b.rate) \div TicksPerSecond
    IN  [b EXCEPT !.tokens = b.tokens + tokens_to_add,
                  !.last_update = t]

\* _refill_tokens() at time t
RefillTokens(b, t) ==
    LET elapsed == t - b.last_update
        tokens_to_add == (elapsed * b.rate) \div TicksPerSecond
    IN  [b EXCEPT !.tokens = Min(b.capacity, b.tokens + tokens_to_add),
                  !.last_update = t]

\* allow_request(tokens) at time t
AllowRequest(b, tokens, t) ==
    LET c == RefillTokens([b EXCEPT !.stats.total_requests = @ + 1], t) IN
    IF c.tokens >= Milli * tokens
    THEN [obj |-> [c EXCEPT !.tokens = @ - Milli * tokens,
                            !.stats.accepted_requests = @ + 1],
          ret |-> TRUE]
    ELSE [obj |-> [c EXCEPT !.stats.rejected_requests = @ + 1],
          ret |-> FALSE]

\* The last call on the token bucket.
TBCall(op, tokens, ret) == [op |-> op, tokens |-> tokens, ret |-> ret]

TBOthers == <<rrVars, wrrVars, lcVars, iphVars, cbVars, poolVars, swVars,
              adVars,
              hcVars>>

\* Time passes.
TBTick ==
    /\ tb_time < MaxLimiterTime
    /\ tb_time' = tb_time + 1
    /\ UNCHANGED <<tb, tb_ret, tb_admitted, TBOthers>>

TBAllowRequest(tokens) ==
    LET out == AllowRequest(tb, tokens, tb_time) IN
    /\ tb.stats.total_requests < MaxLimiterCalls
    /\ tb' = out.obj
    /\ tb_ret' = TBCall("allow_request", tokens, out.ret)
    /\ tb_admitted' = IF out.ret
                      THEN [tb_admitted EXCEPT ![tb_time] = @ + tokens]
                      ELSE tb_admitted
    /\ UNCHANGED <<tb_time, TBOthers>>

\* SlidingWindowRateLimiter.__init__: a window of one second, and int()
\* of the configured rate
SWInit(config) ==
    [window_size |-> TicksPerSecond,
     max_requests |-> config.requests_per_second \div Milli,
     request_times |-> << >>,
     stats |-> [total_requests |-> 0, accepted_requests |-> 0,
                rejected_requests |-> 0, windows_processed |-> 0],
     lock |-> "free"]

\* the while loop of _clean_old_requests(): popleft() while the oldest
\* time is before window_start
RECURSIVE DropOld(_, _)
DropOld(request_times, window_start) ==
    IF request_times # << >> /\ Head(request_times) < window_start
    THEN DropOld(Tail(request_times), window_start)
    ELSE request_times

\* _clean_old_requests() at time t
CleanOldRequests(w, t) ==
    [w EXCEPT !.request_times = DropOld(@, t - w.window_size)]

\* An allow_request() that rejects and still logs the time.
SlidingAllowRequestLogsAll(w, t, stamp) ==
    LET c == CleanOldRequests([w EXCEPT !.stats.total_requests = @ + 1], t)
    IN  IF Len(c.request_times) < c.max_requests
        THEN [obj |-> [c EXCEPT !.request_times = Append(@, stamp),
                                !.stats.accepted_requests = @ + 1],
              ret |-> TRUE]
        ELSE [obj |-> [c EXCEPT !.request_times = Append(@, stamp),
                                !.stats.rejected_requests = @ + 1],
              ret |-> FALSE]

\* allow_request(): the log is cleaned at time t; the time appended is read
\* from the clock again, stamp >= t.
SlidingAllowRequest(w, t, stamp) ==
    LET c == CleanOldRequests([w EXCEPT !.stats.total_requests = @ + 1], t)
    IN  IF Len(c.request_times) < c.max_requests
        THEN [obj |-> [c EXCEPT !.request_times = Append(@, stamp),
                                !.stats.accepted_requests = @ + 1],
              ret |-> TRUE]
        ELSE [obj |-> [c EXCEPT !.stats.rejected_requests = @ + 1],
              ret |-> FALSE]

\* get_current_rate() at time t: requests per window of one second
GetCurrentRate(w, t) ==
    LET c == CleanOldRequests(w, t) IN
    [obj |-> c, ret |-> Len(c.request_times)]

\* get_stats() at time t.  Holding self.lock it calls get_current_rate(),
\* which waits for self.lock: the call never returns and the lock stays
\* held.
SlidingGetStats(w, t) == [CleanOldRequests(w, t) EXCEPT !.lock = "held"]

\* The last call on the sliding window: the time it was made at, the number
\* of logged times it found in the window, and what it returned.
SWCall(op, at, seen, ret) == [op |-> op, at |-> at, seen |-> seen, ret |-> ret]

SWOthers == <<rrVars, wrrVars, lcVars, iphVars, cbVars, poolVars, tbVars,
              adVars,
              hcVars>>

SWTick ==
    /\ sw_time < MaxLimiterTime
    /\ sw_time' = sw_time + 1
    /\ UNCHANGED <<sw, sw_config, sw_ret, sw_admitted, SWOthers>>

\* allow_request(); the clock may tick between the two times it is read.
SWAllowRequest(later) ==
    LET out == SlidingAllowRequest(sw, sw_time, sw_time + later) IN
    /\ sw.lock = "free"
    /\ sw.stats.total_requests < MaxLimiterCalls
    /\ sw_time + later <= MaxLimiterTime
    /\ sw' = out.obj
    /\ sw_time' = sw_time + later
    /\ sw_ret' = SWCall("allow_request", sw_time,
                        Len(CleanOldRequests(sw, sw_time).request_times),
                        out.ret)
    /\ sw_admitted' = IF out.ret THEN Append(sw_admitted, sw_time + later)
                      ELSE sw_admitted
    /\ UNCHANGED <<sw_config, SWOthers>>

SWGetCurrentRate ==
    LET out == GetCurrentRate(sw, sw_time) IN
    /\ sw.lock = "free"
    /\ sw' = out.obj
    /\ sw_ret' = SWCall("get_current_rate", sw_time, out.ret, FALSE)
    /\ UNCHANGED <<sw_config, sw_time, sw_admitted, SWOthers>>

SWGetStats ==
    /\ sw.lock = "free"
    /\ sw' = SlidingGetStats(sw, sw_time)
    /\ sw_ret' = SWCall("get_stats", sw_time,
                        Len(CleanOldRequests(sw, sw_time).request_times),
                        FALSE)
    /\ UNCHANGED <<sw_config, sw_time, sw_admitted, SWOthers>>

\* The least number of samples _adjust_rate() works on.
MinSamples == 10

\* What record_response(success, response_time) is called with: a success
\* after 0.05 seconds, a success after 2 seconds, a failure after 2 seconds.
Responses ==
    {[success |-> TRUE, response_time |-> Milli \div 20],
     [success |-> TRUE, response_time |-> 2 * Milli],
     [success |-> FALSE, response_time |-> 2 * Milli]}

\* The configurations of the adaptive limiter: one request per second or
\* one in two seconds, bursts of one.
AdaptiveConfigs == {RateLimitConfig(r, 1) : r \in {Milli \div 2, Milli}}

\* AdaptiveRateLimiter.__init__ at time t.  recent_failures, a deque of at
\* most 100 samples, is held as the bag of its samples: nothing but the
\* dropping of the oldest of 100 reads their order, and the runs checked end
\* before the deque is full.
ADInit(config, t) ==
    [base_config |-> config,
     current_rate |-> config.requests_per_second,
     min_rate |-> config.requests_per_second \div 10,
     max_rate |-> config.requests_per_second * 2,
     limiter |-> TBInit(config, t),
     recent_failures |-> EmptyBag,
     adjustment_interval |-> 10 * TicksPerSecond,
     last_adjustment |-> t]

\* sum(f[x] for x in recent_failures)
RECURSIVE SumOver(_, _, _)
SumOver(bag, kinds, f) ==
    IF kinds = {} THEN 0
    ELSE LET k == CHOOSE x \in kinds : TRUE IN
         CopiesIn(k, bag) * f[k] + SumOver(bag, kinds \ {k}, f)

\* sum(1 for failed, _ in self.recent_failures if failed)
Failures(a) ==
    LET kinds == BagToSet(a.recent_failures) IN
    SumOver(a.recent_failures, kinds,
            [x \in kinds |-> IF x.failed THEN 1 ELSE 0])

\* sum(rt for _, rt in self.recent_failures)
TotalResponseTime(a) ==
    LET kinds == BagToSet(a.recent_failures) IN
    SumOver(a.recent_failures, kinds, [x \in kinds |-> x.response_time])

\* The same without the clamp to [min_rate, max_rate].
AdjustedRateUnclamped(a) ==
    LET len == BagCardinality(a.recent_failures)
        failures == Failures(a)
        total == TotalResponseTime(a)
    IN  IF 10 * failures > len \/ total > Milli * len
        THEN (a.current_rate * 8) \div 10
        ELSE IF 100 * failures < len /\ 10 * total < Milli * len
        THEN (a.current_rate * 11) \div 10
        ELSE a.current_rate

\* The rate _adjust_rate() sets: failure_rate > 0.1 or avg_response_time >
\* 1.0 takes a fifth off, failure_rate < 0.01 and avg_response_time < 0.1
\* adds a tenth.
AdjustedRate(a) ==
    LET len == BagCardinality(a.recent_failures)
        failures == Failures(a)
        total == TotalResponseTime(a)
    IN  IF 10 * failures > len \/ total > Milli * len
        THEN Max(a.min_rate, (a.current_rate * 8) \div 10)
        ELSE IF 100 * failures < len /\ 10 * total < Milli * len
        THEN Min(a.max_rate, (a.current_rate * 11) \div 10)
        ELSE a.current_rate

\* An _adjust_rate() that does not look at the time of the last adjustment.
AdjustRateAnyTime(a, t) ==
    IF BagCardinality(a.recent_failures) < MinSamples THEN a
    ELSE [a EXCEPT !.current_rate = AdjustedRate(a),
                   !.limiter.rate = AdjustedRate(a),
                   !.last_adjustment = t]

\* _adjust_rate() at time t
AdjustRate(a, t) ==
    IF t - a.last_adjustment < a.adjustment_interval THEN a
    ELSE IF BagCardinality(a.recent_failures) < MinSamples THEN a
    ELSE [a EXCEPT !.current_rate = AdjustedRate(a),
                   !.limiter.rate = AdjustedRate(a),
                   !.last_adjustment = t]

\* record_response(success, response_time) at time t
RecordResponse(a, success, response_time, t) ==
    AdjustRate([a EXCEPT !.recent_failures =
                    @ (+) SetToBag({[failed |-> ~success,
                                     response_time |-> response_time]})],
               t)

\* allow_request() at time t
AdaptiveAllowRequest(a, t) ==
    LET out == AllowRequest(a.limiter, 1, t) IN
    [obj |-> [a EXCEPT !.limiter = out.obj], ret |-> out.ret]

\* The last call on the adaptive limiter.
ADCall(op, at, ret) == [op |-> op, at |-> at, ret |-> ret]

ADOthers == <<rrVars, wrrVars, lcVars, iphVars, cbVars, poolVars, tbVars,
              swVars,
              hcVars>>

\* Time passes: step ticks, up to the time limit.
ADTick(step, limit) ==
    /\ ad_time + step <= limit
    /\ ad_time' = ad_time + step
    /\ UNCHANGED <<ad, ad_ret, ad_changed, ADOthers>>

\* record_response(), while the log holds fewer than limit samples
ADRecordResponse(success, response_time, limit) ==
    /\ BagCardinality(ad.recent_failures) < limit
    /\ ad' = RecordResponse(ad, success, response_time, ad_time)
    /\ ad_ret' = ADCall("record_response", ad_time, FALSE)
    /\ ad_changed' = IF ad'.current_rate # ad.current_rate THEN ad_time
                     ELSE ad_changed
    /\ UNCHANGED <<ad_time, ADOthers>>

ADAllowRequest ==
    LET out == AdaptiveAllowRequest(ad, ad_time) IN
    /\ ad.limiter.stats.total_requests < MaxAdaptiveCalls
    /\ ad' = out.obj
    /\ ad_ret' = ADCall("allow_request", ad_time, out.ret)
    /\ UNCHANGED <<ad_time, ad_changed, ADOthers>>

----------------------------------------------------------------------------
(* The health checker: src/src/health/advanced_health_checker.py           *)
(* Of a check result only the status is read by the thresholds; the times, *)
(* the average response time and the uptime percentage are left out.  The  *)
(* history holds the statuses of the results and is trimmed to max_history *)
(* = 100, which no run here reaches.                                       *)

HEALTHY == "healthy"
DEGRADED == "degraded"
UNHEALTHY == "unhealthy"
UNKNOWN == "unknown"

\* The statuses perform_check gives its result.
ResultStatuses == {HEALTHY, DEGRADED, UNHEALTHY}

\* HealthCheckConfig()
DefaultHealthConfig == [healthy_threshold |-> 2, unhealthy_threshold |-> 3]

\* The configurations checkers are built with.
HCConfigs ==
    [healthy_threshold : 1..MaxThreshold, unhealthy_threshold : 1..MaxThreshold]

HCInit ==
    [current_status |-> UNKNOWN, consecutive_successes |-> 0,
     consecutive_failures |-> 0, check_history |-> <<>>,
     stats |-> [total_checks |-> 0, successful_checks |-> 0,
                failed_checks |-> 0]]

\* The counters after a result of the given status.
HCCount(h, status) ==
    IF status = HEALTHY
    THEN [h EXCEPT !.stats.total_checks = @ + 1,
                   !.consecutive_successes = @ + 1,
                   !.consecutive_failures = 0,
                   !.stats.successful_checks = @ + 1]
    ELSE [h EXCEPT !.stats.total_checks = @ + 1,
                   !.consecutive_failures = @ + 1,
                   !.consecutive_successes = 0,
                   !.stats.failed_checks = @ + 1]

\* _update_health_status that keeps the count of failures over a healthy
\* result.
UpdateHealthStatusKeepsCount(h, cfg, status) ==
    LET h1 == IF status = HEALTHY
              THEN [HCCount(h, status) EXCEPT
                        !.consecutive_failures = h.consecutive_failures]
              ELSE HCCount(h, status)
        h2 == IF h1.consecutive_successes >= cfg.healthy_threshold
              THEN [h1 EXCEPT !.current_status = HEALTHY]
              ELSE IF h1.consecutive_failures >= cfg.unhealthy_threshold
              THEN [h1 EXCEPT !.current_status = UNHEALTHY]
              ELSE IF status = DEGRADED
              THEN [h1 EXCEPT !.current_status = DEGRADED]
              ELSE h1
    IN [h2 EXCEPT !.check_history = Append(@, status)]

\* _update_health_status(result)
UpdateHealthStatus(h, cfg, status) ==
    LET h1 == HCCount(h, status)
        h2 == IF h1.consecutive_successes >= cfg.healthy_threshold
              THEN [h1 EXCEPT !.current_status = HEALTHY]
              ELSE IF h1.consecutive_failures >= cfg.unhealthy_threshold
              THEN [h1 EXCEPT !.current_status = UNHEALTHY]
              ELSE IF status = DEGRADED
              THEN [h1 EXCEPT !.current_status = DEGRADED]
              ELSE h1
    IN [h2 EXCEPT !.check_history = Append(@, status)]

\* One pass of the health check loop: a check and its result's update.
HCCheck(status) ==
    /\ hc.stats.total_checks < MaxChecks
    /\ hc' = UpdateHealthStatus(hc, hc_config, status)
    /\ hc_ret' = status
    /\ UNCHANGED <<hc_config, rrVars, wrrVars, lcVars, iphVars, cbVars,
                   poolVars, rlVars>>

----------------------------------------------------------------------------
(* Specifications.  Each one starts every object in the state its          *)
(* constructor leaves it in and drives one component.                      *)

InitObjects ==
    /\ rr = RRInit
    /\ rr_ret = None
    /\ rr_calls = 0
    /\ rr_log = <<>>
    /\ rr_threads = [t \in Threads |-> RRIdle]
    /\ wrr = WRRInit
    /\ wrr_ret = None
    /\ wrr_fresh = TRUE
    /\ wrr_log = <<>>
    /\ lc_ret = LCCall("__init__", None, None)
    /\ lc_sel = [server |-> None, released |-> 0]
    /\ lc_seen = 0 - 1
    /\ iph = IPHInit
    /\ iph_ret = IPHCall("__init__", <<>>, "", None, None, None)
    /\ iph_assigned = EmptyMap
    /\ cb = CBInit
    /\ now = 0
    /\ in_flight = 0
    /\ cb_ret = [op |-> "__init__", pre |-> CLOSED, ret |-> None]
    /\ cb_opened_at = 0
    /\ cb_consec = 0
    /\ cb_probe = -1
    /\ cb_episode = 0
    /\ pool_time = 0
    /\ pool_loops = [test |-> 0, sleep |-> 0]
    /\ pool_acq = [t \in Callers |-> NotCalling]
    /\ pool_held = [t \in Callers |->
                       [conn |-> << >>, connection |-> NoConnection,
                        holding |-> FALSE]]
    /\ pool_ret = PoolCall("__init__", None, None)
    /\ pool_phase = "new"
    /\ pool_steps = 0
    /\ tb_time = 0
    /\ tb_ret = TBCall("__init__", 0, FALSE)
    /\ tb_admitted = [t \in 0..MaxLimiterTime |-> 0]
    /\ sw_time = 0
    /\ sw_ret = SWCall("__init__", 0, 0, FALSE)
    /\ sw_admitted = << >>
    /\ ad_time = 0
    /\ ad_ret = ADCall("__init__", 0, FALSE)
    /\ ad_changed = -1
    /\ hc = HCInit
    /\ hc_ret = UNKNOWN

\* The limiters as their constructors leave them without a configuration.
InitLimiters ==
    /\ tb = TBInit(DefaultRateLimitConfig, 0)
    /\ sw_config = DefaultRateLimitConfig
    /\ sw = SWInit(DefaultRateLimitConfig)
    /\ ad = ADInit(DefaultRateLimitConfig, 0)

\* Round robin over a fixed list.
InitRR ==
    /\ InitObjects
    /\ hc_config = DefaultHealthConfig
    /\ cb_config = DefaultConfig
    /\ rr_servers \in BackendLists
    /\ wrr_backends = <<>>
    /\ lc = LCInit(<<"b1">>)
    /\ pool = PoolInit(None)
    /\ pool_config = DefaultPoolConfig
    /\ InitLimiters

NextRR == RRSelect \/ RRReset

SpecRR == InitRR /\ [][NextRR]_vars

\* Weighted round robin over a fixed list, weights registered at any time.
InitWRR ==
    /\ InitObjects
    /\ hc_config = DefaultHealthConfig
    /\ cb_config = DefaultConfig
    /\ rr_servers = <<>>
    /\ wrr_backends \in EligibleLists
    /\ lc = LCInit(<<"b1">>)
    /\ pool = PoolInit(None)
    /\ pool_config = DefaultPoolConfig
    /\ InitLimiters

NextWRR ==
    \/ \E b \in Backends, weight \in Weights : WRRSetWeight(b, weight)
    \/ WRRSelect

SpecWRR == InitWRR /\ [][NextWRR]_vars

\* Least connections: the constructor takes any non-empty list.
InitLC ==
    /\ InitObjects
    /\ hc_config = DefaultHealthConfig
    /\ cb_config = DefaultConfig
    /\ rr_servers = <<>>
    /\ wrr_backends = <<>>
    /\ lc \in {LCInit(servers) : servers \in BackendLists \ {<<>>}}
    /\ pool = PoolInit(None)
    /\ pool_config = DefaultPoolConfig
    /\ InitLimiters

NextLC ==
    \/ LCGetNextServer
    \/ \E server \in Backends : LCReleaseConnection(server)
    \/ LCReleaseSelection
    \/ \E server \in Backends : LCAddServer(server)
    \/ \E server \in Backends : LCRemoveServer(server)
    \/ LCResetConnections

SpecLC == InitLC /\ [][NextLC]_vars

\* IP hash: selections for any client over any list.
InitIPH ==
    /\ InitObjects
    /\ hc_config = DefaultHealthConfig
    /\ cb_config = DefaultConfig
    /\ rr_servers = <<>>
    /\ wrr_backends = <<>>
    /\ lc = LCInit(<<"b1">>)
    /\ pool = PoolInit(None)
    /\ pool_config = DefaultPoolConfig
    /\ InitLimiters

NextIPH ==
    \/ \E backends \in BackendLists, client_ip \in Clients :
           IPHSelect(backends, client_ip)
    \/ \E backend_id \in Backends : IPHRemoveBackend(backend_id)
    \/ IPHClearCache

SpecIPH == InitIPH /\ [][NextIPH]_vars

\* One round robin over a fixed non-empty list, called from two threads.
InitRRThreads ==
    /\ InitObjects
    /\ hc_config = DefaultHealthConfig
    /\ cb_config = DefaultConfig
    /\ rr_servers \in EligibleLists \ {<<>>}
    /\ wrr_backends = <<>>
    /\ lc = LCInit(Registered)
    /\ pool = PoolInit(None)
    /\ pool_config = DefaultPoolConfig
    /\ InitLimiters

NextRRThreads ==
    \E t \in Threads :
        \/ RRThreadSelect(t)
        \/ RRThreadNext(t)
        \/ RRThreadStore(t)

SpecRRThreads == InitRRThreads /\ [][NextRRThreads]_vars

\* One circuit breaker, its callers and the clock.
InitCB ==
    /\ InitObjects
    /\ hc_config = DefaultHealthConfig
    /\ cb_config \in CBConfigs
    /\ rr_servers = <<>>
    /\ wrr_backends = <<>>
    /\ lc = LCInit(<<"b1">>)
    /\ pool = PoolInit(None)
    /\ pool_config = DefaultPoolConfig
    /\ InitLimiters

NextCB ==
    \/ CBTick
    \/ CBCallEnter
    \/ \E admit \in BOOLEAN : CBIsAvailable(admit)
    \/ CBRecordSuccess
    \/ CBRecordFailure
    \/ CBReset

SpecCB == InitCB /\ [][NextCB]_vars

\* One connection pool, with or without a connection factory, its callers,
\* its maintenance threads and the clock.
InitPool ==
    /\ InitObjects
    /\ hc_config = DefaultHealthConfig
    /\ cb_config = DefaultConfig
    /\ rr_servers = <<>>
    /\ wrr_backends = <<>>
    /\ lc = LCInit(<<"b1">>)
    /\ pool \in {PoolInit(f) : f \in {None, "factory"}}
    /\ pool_config \in PoolConfigs
    /\ InitLimiters

NextPool ==
    \/ PoolTick
    \/ PoolStart
    \/ PoolStop
    \/ \E t \in Callers : PoolAcquireCall(t)
    \/ \E t \in Callers : PoolAcquireGet(t)
    \/ \E t \in Callers : PoolAcquireReuse(t)
    \/ \E t \in Callers : PoolAcquireCreate(t)
    \/ \E t \in Callers : \E connection \in Releasable(t) :
            PoolRelease(t, connection)
    \/ PoolLoopTest
    \/ PoolLoopPass

SpecPool == InitPool /\ [][NextPool]_vars

\* The threads of the callers are scheduled: a caller inside acquire() whose
\* next step stays possible takes it.  Nothing is asked of the calls that
\* start or stop the pool, of release() or of the maintenance threads.
FairPool ==
    \A t \in Callers :
        /\ WF_vars(PoolAcquireGet(t))
        /\ WF_vars(PoolAcquireReuse(t))
        /\ WF_vars(PoolAcquireCreate(t))

\* The pools that keep one connection and grow to MaxPoolSize.
InitPoolFair ==
    /\ InitPool
    /\ pool_config.min_connections = 1
    /\ pool_config.max_connections = MaxPoolSize

SpecPoolFair == InitPoolFair /\ [][NextPool]_vars /\ FairPool

\* One balancer that selects with one of the four strategies, the one it
\* calls first, over an eligible list that changes from call to call.
RRUnused == rr = RRInit /\ rr_ret = None /\ rr_servers = <<>>
WRRUnused == wrr = WRRInit /\ wrr_ret = None /\ wrr_backends = <<>>
IPHUnused == iph = IPHInit /\ iph_ret.op = "__init__"
LCUnused == lc_ret.op = "__init__"

InitSelect ==
    /\ InitObjects
    /\ hc_config = DefaultHealthConfig
    /\ cb_config = DefaultConfig
    /\ rr_servers = <<>>
    /\ wrr_backends = <<>>
    /\ lc = LCInit(Registered)
    /\ pool = PoolInit(None)
    /\ pool_config = DefaultPoolConfig
    /\ InitLimiters

NextSelect ==
    \/ /\ WRRUnused /\ IPHUnused /\ LCUnused
       /\ \E servers \in EligibleLists : RRSelectFrom(servers)
    \/ /\ RRUnused /\ IPHUnused /\ LCUnused
       /\ \/ \E backends \in EligibleLists : WRRSelectFrom(backends)
          \/ \E b \in Backends, weight \in Weights :
                WRRSetWeight(b, weight)
    \/ RRUnused /\ WRRUnused /\ LCUnused /\ NextIPH
    \/ RRUnused /\ WRRUnused /\ IPHUnused /\ NextLC

SpecSelect == InitSelect /\ [][NextSelect]_vars

\* One health checker and the results of its checks.
InitHC ==
    /\ InitObjects
    /\ hc_config \in HCConfigs
    /\ cb_config = DefaultConfig
    /\ rr_servers = <<>>
    /\ wrr_backends = <<>>
    /\ lc = LCInit(<<"b1">>)
    /\ pool = PoolInit(None)
    /\ pool_config = DefaultPoolConfig
    /\ InitLimiters

NextHC == \E status \in ResultStatuses : HCCheck(status)

SpecHC == InitHC /\ [][NextHC]_vars

\* The objects no limiter specification drives.
InitNoLimiter ==
    /\ InitObjects
    /\ hc_config = DefaultHealthConfig
    /\ cb_config = DefaultConfig
    /\ rr_servers = <<>>
    /\ wrr_backends = <<>>
    /\ lc = LCInit(<<"b1">>)
    /\ pool = PoolInit(None)
    /\ pool_config = DefaultPoolConfig

\* One token bucket, its callers and the clock.
InitTB ==
    /\ InitNoLimiter
    /\ tb \in {TBInit(config, 0) : config \in RateLimitConfigs}
    /\ sw_config = DefaultRateLimitConfig
    /\ sw = SWInit(DefaultRateLimitConfig)
    /\ ad = ADInit(DefaultRateLimitConfig, 0)

NextTB ==
    \/ TBTick
    \/ \E tokens \in Costs : TBAllowRequest(tokens)

SpecTB == InitTB /\ [][NextTB]_vars

\* One sliding window, its callers and the clock.
InitSW ==
    /\ InitNoLimiter
    /\ tb = TBInit(DefaultRateLimitConfig, 0)
    /\ sw_config \in RateLimitConfigs
    /\ sw = SWInit(sw_config)
    /\ ad = ADInit(DefaultRateLimitConfig, 0)

NextSW ==
    \/ SWTick
    \/ \E later \in 0..1 : SWAllowRequest(later)
    \/ SWGetCurrentRate
    \/ SWGetStats

SpecSW == InitSW /\ [][NextSW]_vars

\* One adaptive limiter, its callers and the clock.
InitAD ==
    /\ InitNoLimiter
    /\ tb = TBInit(DefaultRateLimitConfig, 0)
    /\ sw_config = DefaultRateLimitConfig
    /\ sw = SWInit(DefaultRateLimitConfig)
    /\ ad \in {ADInit(config, 0) : config \in AdaptiveConfigs}

\* Its first intervals: any response, any request, the clock goes by half
\* intervals.
NextAD ==
    \/ ADTick(ad.adjustment_interval \div 2,
              MaxHalfIntervals * (ad.adjustment_interval \div 2))
    \/ \E r \in Responses :
            ADRecordResponse(r.success, r.response_time, MaxBriefSamples)
    \/ ADAllowRequest

SpecAD == InitAD /\ [][NextAD]_vars

\* Its long runs, far enough for current_rate to come to min_rate and to
\* max_rate: responses only, good ones and bad ones, the clock goes by whole
\* intervals.
NextADLong ==
    \/ ADTick(ad.adjustment_interval, MaxIntervals * ad.adjustment_interval)
    \/ \E r \in {x \in Responses : x.success = (x.response_time < Milli)} :
            ADRecordResponse(r.success, r.response_time, MaxSamples)

SpecADLong == InitAD /\ [][NextADLong]_vars

----------------------------------------------------------------------------
(* C2: round robin exactness.  Over a fixed non-empty list and counted     *)
(* from a fresh (or reset) RoundRobinAlgorithm, the k-th call of           *)
(* select_server (k = 0, 1, ...) returned servers[k mod n]; whenever the   *)
(* number of calls is a multiple of n every server was returned equally    *)
(* often.                                                                  *)
C2_RoundRobinExact ==
    rr_servers # <<>> =>
        /\ Len(rr_log) = rr_calls
        /\ \A k \in 0..(rr_calls - 1) :
              rr_log[k + 1] = rr_servers[(k % Len(rr_servers)) + 1]
        /\ rr_calls % Len(rr_servers) = 0 =>
              \A i \in 1..Len(rr_servers) :
                  Count(rr_log, rr_servers[i]) = rr_calls \div Len(rr_servers)

\* Three backends, six selections: [b1,b2,b3,b1,b2,b3].
C2_Witness ==
    /\ rr_servers = <<"b1", "b2", "b3">>
    /\ rr_log = <<"b1", "b2", "b3", "b1", "b2", "b3">>

(* C1: weighted round robin.  Over a fixed non-empty list whose backends   *)
(* are the ones with a registered weight, starting from a fresh plugin and *)
(* with no weight registered after the first selection, every window of    *)
(* sum(wi)/gcd(wi) consecutive selections holds backend i exactly          *)
(* wi/gcd(wi) times.                                                       *)
C1_WeightedExact ==
    ( /\ wrr_fresh
      /\ wrr_backends # <<>>
      /\ DOMAIN wrr.backend_weights = Range(wrr_backends)
      /\ Len(wrr_log) = CycleLen(wrr, wrr_backends) )
    => \A i \in 1..Len(wrr_backends) :
          Count(wrr_log, wrr_backends[i]) =
              WeightOf(wrr, wrr_backends[i])
                  \div GcdOf(ListWeights(wrr, wrr_backends))

\* Weights 2:4:6 (the ratio of 50:100:150, gcd above 1): a full window of
\* six selections that is not the first one.
C1_Witness ==
    /\ wrr_fresh
    /\ wrr_backends = <<"b1", "b2", "b3">>
    /\ wrr.backend_weights = [b \in Backends |->
            IF b = "b1" THEN 2 ELSE IF b = "b2" THEN 4 ELSE 6]
    /\ wrr_log = <<"b3", "b2", "b3", "b1", "b2", "b3">>

(* C3: least connections.  get_next_server on a non-empty pool returns a   *)
(* server of the pool whose count is minimal, the first such one in list   *)
(* order, raises that server's count by exactly 1 and leaves every other   *)
(* count and the server list as they were.                                 *)
C3_LeastConnections ==
    [][ (lc_ret'.op = "get_next_server" /\ lc.servers # <<>>) =>
          \E i \in 1..Len(lc.servers) :
              /\ lc_ret'.ret = lc.servers[i]
              /\ \A j \in 1..Len(lc.servers) :
                    ConnOf(lc, lc.servers[j]) >= ConnOf(lc, lc.servers[i])
              /\ \A j \in 1..(i - 1) :
                    ConnOf(lc, lc.servers[j]) > ConnOf(lc, lc.servers[i])
              /\ ConnOf(lc', lc.servers[i]) = ConnOf(lc, lc.servers[i]) + 1
              /\ \A x \in Backends \ {lc.servers[i]} :
                    ConnOf(lc', x) = ConnOf(lc, x)
              /\ lc'.servers = lc.servers ]_vars

\* Counts {5,2,8}: the server with 2 was returned and now counts 3.
C3_Witness ==
    /\ lc_ret.op = "get_next_server"
    /\ lc_ret.ret = "b2"
    /\ lc.servers = <<"b1", "b2", "b3">>
    /\ DOMAIN lc.connections = Backends
    /\ lc.connections["b1"] = 5
    /\ lc.connections["b2"] = 3
    /\ lc.connections["b3"] = 8

(* C4: sticky persistence.  A select_backend call for a client with an     *)
(* address, over a non-empty list, returns a member of the list; when the  *)
(* backend the client's previous selection returned is in the list, it     *)
(* returns that backend (so a reassignment made after that backend left    *)
(* the list is kept by the calls that follow).                             *)
C4_StickyPersistence ==
    [][ ( /\ iph_ret'.op = "select_backend"
          /\ iph_ret'.client_ip # ""
          /\ iph_ret'.backends # <<>> ) =>
          /\ iph_ret'.ret \in Range(iph_ret'.backends)
          /\ ( /\ iph_ret'.client_ip \in DOMAIN iph_assigned
               /\ iph_assigned[iph_ret'.client_ip] \in Range(iph_ret'.backends) )
             => iph_ret'.ret = iph_assigned[iph_ret'.client_ip] ]_vars

\* The client was given b3; over the list [b3, b1], where its hash alone
\* points at b1, it is given b3 again.
C4_Witness ==
    /\ iph_ret.op = "select_backend"
    /\ iph_ret.client_ip = "10.0.0.4"
    /\ iph_ret.backends = <<"b3", "b1">>
    /\ HashIp("10.0.0.4", 2) = 1
    /\ iph_ret.ret = "b3"

(* C5: from Closed the breaker opens when and only when failure_threshold  *)
(* failures were recorded with no success in between.  While Closed,       *)
(* failure_count is the number of failures recorded since the last success *)
(* (or since the breaker closed) and is below the threshold; a step leaves *)
(* Closed for Open exactly when it records the failure that makes that     *)
(* number failure_threshold; a success recorded in Closed leaves           *)
(* failure_count at 0.                                                     *)
C5_ClosedToOpen ==
    [][ cb.state = CLOSED =>
          /\ cb.failure_count = cb_consec
          /\ cb_consec < cb_config.failure_threshold
          /\ (cb'.state = OPEN) <=>
                ( /\ cb_ret'.op = "record_failure"
                  /\ cb_consec + 1 = cb_config.failure_threshold )
          /\ cb'.state # HALF_OPEN
          /\ (cb_ret'.op = "record_success" => cb'.failure_count = 0) ]_vars

\* failure_threshold = 3: the breaker has just opened on the third failure
\* in a row.
C5_Witness ==
    /\ cb_config.failure_threshold = 3
    /\ cb_ret.op = "record_failure"
    /\ cb_ret.pre = CLOSED
    /\ cb.state = OPEN
    /\ cb.call_history = <<FALSE, FALSE>>
    /\ cb.failure_count = 3

(* C6: an opened circuit is not stuck.  Once an Open breaker whose timeout *)
(* has elapsed answered is_available() with true, success_threshold        *)
(* successes recorded with no failure in between leave it Closed.          *)
C6_OpenedCircuitRecovers ==
    cb_probe >= cb_config.success_threshold => cb.state = CLOSED

(* C7: once timeout has elapsed since the breaker entered Open, the next   *)
(* is_available() returns true and leaves the breaker HalfOpen.            *)
C7_QueryMovesToHalfOpen ==
    (cb_ret.op = "is_available" /\ cb_ret.pre = "open_expired") =>
        (cb_ret.ret = TRUE /\ cb.state = HALF_OPEN)

(* C8: while the breaker is Open and less than timeout has elapsed since   *)
(* it entered Open, is_available() returns false and call() fails with the *)
(* circuit-open failure without invoking the operation, whatever requests  *)
(* are in flight.                                                          *)
C8_OpenRejects ==
    [][ (cb.state = OPEN /\ now - cb_opened_at < cb_config.timeout) =>
          /\ cb_ret'.op = "is_available" =>
                (cb_ret'.ret = FALSE /\ in_flight' = in_flight)
          /\ cb_ret'.op = "call" =>
                ( /\ cb_ret'.ret = "CircuitOpen"
                  /\ in_flight' = in_flight
                  /\ cb'.state = OPEN ) ]_vars

\* A call rejected by a cooling Open breaker while another is in flight.
C8_Witness ==
    /\ cb_ret.op = "call"
    /\ cb_ret.pre = "open_cooling"
    /\ cb_ret.ret = "CircuitOpen"
    /\ in_flight > 0

(* C9: a failure recorded in HalfOpen opens the breaker at once and        *)
(* restarts the cooldown: the breaker left by that step answers            *)
(* is_available() with false at every time before now + timeout and with   *)
(* true from now + timeout on.                                             *)
C9_HalfOpenFailureReopens ==
    [][ (cb.state = HALF_OPEN /\ cb_ret'.op = "record_failure") =>
          /\ cb'.state = OPEN
          /\ cb_opened_at' = now
          /\ \A t \in now..(now + cb_config.timeout - 1) :
                ~IsAvailable(cb', cb_config, t)
          /\ IsAvailable(cb', cb_config, now + cb_config.timeout) ]_vars

\* The breaker re-opened by a failure in HalfOpen, later than it first
\* opened.
C9_Witness ==
    /\ cb_ret.op = "record_failure"
    /\ cb_ret.pre = HALF_OPEN
    /\ cb.state = OPEN
    /\ cb_opened_at > 0

(* C10: a success recorded in HalfOpen raises success_count by one and     *)
(* closes the breaker as soon as the count reaches success_threshold, and  *)
(* not before; right after any transition into Closed failure_count and    *)
(* success_count are both 0.                                               *)
C10_HalfOpenSuccess ==
    [][ /\ (cb.state = HALF_OPEN /\ cb_ret'.op = "record_success") =>
              IF cb.success_count + 1 >= cb_config.success_threshold
              THEN cb'.state = CLOSED
              ELSE /\ cb'.state = HALF_OPEN
                   /\ cb'.success_count = cb.success_count + 1
        /\ (cb.state # CLOSED /\ cb'.state = CLOSED) =>
              (cb'.failure_count = 0 /\ cb'.success_count = 0) ]_vars

\* success_threshold = 2: the second success in HalfOpen closed the breaker
\* that failures had opened.
C10_Witness ==
    /\ cb_config.success_threshold = 2
    /\ cb_ret.op = "record_success"
    /\ cb_ret.pre = HALF_OPEN
    /\ cb.state = CLOSED
    /\ cb.failure_count = 0
    /\ cb.success_count = 0

----------------------------------------------------------------------------
(* The connection pool: what the claims speak of.                          *)

\* The step returns from the acquire() call of caller t.
Returns(t) == pool_acq[t].pc # "idle" /\ pool_acq'[t].pc = "idle"

\* The step is a step of the pool whose pool_ret' tells what it was.
PoolStepOf(op) == pool_steps' # pool_steps /\ pool_ret'.op = op

\* The Idle connections of the pool that no acquire() in progress has
\* taken from the queue.
FreeIdle ==
    {id \in DOMAIN pool.connections :
        /\ pool.connections[id].state = IDLE
        /\ \A t \in Callers : pool_acq[t].conn # <<id>>}

(* C11: whenever the pool holds an Idle connection (one that is not being  *)
(* handed to another caller), an acquire() that returns has reused an     *)
(* Idle connection: it has neither made a new one nor come back           *)
(* exhausted.  The code violates it: start() never puts the connections   *)
(* it makes into self.available.                                           *)
C11_IdleIsReused ==
    [][\A t \in Callers :
          (Returns(t) /\ FreeIdle # {}) => pool_ret'.how = "reused"]_vars

\* Caller t holds connection id: its last acquire() returned it and t has
\* not released it since.
Holds(t, id) == pool_held[t].holding /\ pool_held[t].conn = <<id>>

(* C12: a connection that a caller holds is InUse and is not in the queue *)
(* of available connections, and no two callers hold the same connection. *)
(* The code violates it: release() puts the connection on the queue once  *)
(* per call, and without a factory every connection is the same string,   *)
(* so that release() marks the first connection of the pool Idle.         *)
C12_NoSharedConnection ==
    /\ \A t \in Callers : \A id \in DOMAIN pool.connections :
            Holds(t, id) =>
                /\ pool.connections[id].state = IN_USE
                /\ id \notin Range(pool.available)
    /\ \A t1, t2 \in Callers : \A id \in DOMAIN pool.connections :
            (Holds(t1, id) /\ Holds(t2, id)) => t1 = t2

(* C13: in every reachable state the pool holds at most max_connections   *)
(* connections.                                                            *)
C13_AtMostMax == PoolSize(pool) <= pool_config.max_connections

\* A started pool is full, a connection of it is in use, and it has just
\* refused a caller a further one.
C13_Witness ==
    /\ pool_ret.op = "acquire" /\ pool_ret.how = "exhausted"
    /\ PoolSize(pool) = pool_config.max_connections
    /\ pool.running
    /\ pool.stats.current_active > 0

(* C14: once start() has run, a maintenance pass closes connections only  *)
(* down to min_connections (it closes no more of them than the pool holds *)
(* above min_connections) and leaves at least min_connections in the      *)
(* pool.  The code violates the first part: every connection is tested    *)
(* against the size the pool has before anything is closed, so that a     *)
(* pool above min_connections loses all its expired Idle connections and  *)
(* is filled up again with new ones.                                       *)
C14_ClosesDownToMin ==
    [][(PoolStepOf("maintenance") /\ pool_phase = "started") =>
          /\ pool'.stats.closed_connections - pool.stats.closed_connections
                <= Floor0(PoolSize(pool) - pool_config.min_connections)
          /\ PoolSize(pool') >= pool_config.min_connections]_vars

\* Every connection the pool may hold is in use.
AllInUse ==
    /\ PoolSize(pool) = pool_config.max_connections
    /\ \A id \in DOMAIN pool.connections :
            pool.connections[id].state = IN_USE

(* C15: when all max_connections connections of the pool are InUse, an    *)
(* acquire() that returns comes back with the exhausted result, makes no  *)
(* connection and adds exactly 1 to pool_exhausted_count.  The code       *)
(* violates it after a repeated release (C12): the connection is InUse    *)
(* and on the queue, and acquire() hands it out again.                     *)
C15_ExhaustedWhenAllInUse ==
    [][\A t \in Callers :
          (Returns(t) /\ AllInUse) =>
              /\ pool_ret'.how = "exhausted"
              /\ DOMAIN pool'.connections = DOMAIN pool.connections
              /\ pool'.stats.created_connections =
                     pool.stats.created_connections
              /\ pool'.stats.pool_exhausted_count =
                     pool.stats.pool_exhausted_count + 1]_vars

(* C16: after stop() the pool holds no connection and the queue of        *)
(* available connections is empty.  The code violates it: stop() closes   *)
(* the first connection and ends in a RuntimeError, the other connections *)
(* and the queue left as they were.                                        *)
C16_StopClosesAll ==
    pool_ret.op = "stop" =>
        /\ DOMAIN pool.connections = {}
        /\ pool.available = << >>

(* C17: an acquire() called after stop(), and returning before start() is *)
(* called again, returns no connection and makes none.  The code violates *)
(* it: acquire() does not read self.running.                               *)
C17_NoAcquireAfterStop ==
    [][\A t \in Callers :
          (/\ Returns(t)
           /\ pool_acq[t].began = "stopped"
           /\ pool_phase = "stopped") =>
              /\ pool_ret'.how = "exhausted"
              /\ pool'.stats.created_connections =
                     pool.stats.created_connections]_vars

(* C18: after stop(), and until start() is called again, no maintenance   *)
(* pass is performed.  The code violates it: a thread that stop() finds   *)
(* in the sleep of _maintenance_loop performs its pass when it wakes.     *)
C18_NoPassAfterStop ==
    [][PoolStepOf("maintenance") => pool_phase # "stopped"]_vars

\* The maintenance threads that are alive.
Loops == pool_loops.test + pool_loops.sleep

(* C19: start() is idempotent.  On a pool that is not running and holds   *)
(* no connection (the first start() of a pool) it makes min_connections   *)
(* connections and starts one maintenance thread; on a running pool it    *)
(* changes nothing: no connection is made and no thread is started.        *)
C19_StartIdempotent ==
    [][PoolStepOf("start") =>
          /\ pool.running => (pool' = pool /\ pool_loops' = pool_loops)
          /\ (~pool.running /\ DOMAIN pool.connections = {}) =>
                /\ pool'.running
                /\ PoolSize(pool') = pool_config.min_connections
                /\ pool'.stats.created_connections =
                      pool.stats.created_connections
                        + pool_config.min_connections
                /\ Loops' = Loops + 1]_vars

\* start() was called on a running pool, which holds the connections its
\* first start() made, more than one, and has one maintenance thread.
C19_Witness ==
    /\ pool_ret = PoolCall("start", None, "running")
    /\ pool_config.min_connections > 1
    /\ PoolSize(pool) = pool_config.min_connections
    /\ pool.stats.created_connections = pool_config.min_connections
    /\ Loops = 1

(* C20: release() of a connection that no connection of the pool holds    *)
(* leaves the pool as it is: its connections, the queue of available      *)
(* connections and every counter.                                          *)
C20_UnknownReleaseNoOp ==
    [][(/\ PoolStepOf("release")
        /\ Matching(pool, IF pool_ret'.how = "foreign"
                          THEN ForeignConnection
                          ELSE pool_held[pool_ret'.caller].connection) = {})
          => pool' = pool]_vars

\* A connection the pool never made was released to a pool that holds an
\* Idle and an InUse connection.
C20_Witness ==
    /\ pool_ret.op = "release" /\ pool_ret.how = "foreign"
    /\ \E i, j \in DOMAIN pool.connections :
          /\ pool.connections[i].state = IDLE
          /\ pool.connections[j].state = IN_USE

----------------------------------------------------------------------------
(* C21: no acquire() blocks for ever.  Under any interleaving with         *)
(* release(), the maintenance passes, start() and stop(), a caller that    *)
(* is inside acquire(timeout), waiting on the queue or for the lock,       *)
(* gets out of it, with a connection or with None.                         *)
C21_AcquireReturns ==
    \A t \in Callers :
        (pool_acq[t].pc # "idle") ~> (pool_acq[t].pc = "idle")

\* A caller waited out its timeout on the empty queue of a full pool and
\* got None, while the other caller, which had taken the one queued
\* connection, stood before the lock.
C21_Witness ==
    /\ pool_ret = PoolCall("acquire", "t1", "exhausted")
    /\ pool_acq["t1"].pc = "idle"
    /\ pool_acq["t2"].pc = "locked"
    /\ pool.running

----------------------------------------------------------------------------
(* The rate limiters: what the claims speak of.                            *)

\* The indices of the admitted requests whose time lies in [from, to].
AdmittedIn(from, to) ==
    {i \in DOMAIN sw_admitted : from <= sw_admitted[i] /\ sw_admitted[i] <= to}

\* The step is a call of allow_request() on the sliding window.
SWAllowStep == sw'.stats.total_requests = sw.stats.total_requests + 1

\* q is what is left of p after dropping some of its oldest entries.
IsSuffix(q, p) ==
    /\ Len(q) <= Len(p)
    /\ q = SubSeq(p, Len(p) - Len(q) + 1, Len(p))

\* The number of samples in the log of the adaptive limiter.
Samples(a) == BagCardinality(a.recent_failures)

C23_SlidingWindow ==
    [][/\ sw'.max_requests = sw_config.requests_per_second \div Milli
       /\ \A from \in 0..sw_time' :
            Cardinality(AdmittedIn(from, from + TicksPerSecond)')
                <= sw'.max_requests
       /\ SWAllowStep =>
            /\ sw_ret'.ret <=>
                 Cardinality(AdmittedIn(sw_time - TicksPerSecond, sw_time))
                     < sw.max_requests
            /\ ~sw_ret'.ret =>
                 /\ IsSuffix(sw'.request_times, sw.request_times)
                 /\ sw_admitted' = sw_admitted]_vars

\* A request was rejected on account of one admitted exactly a second
\* earlier, by a limiter that admits one request per second and had
\* admitted more than one before.
C23_Witness ==
    /\ sw_ret.op = "allow_request"
    /\ ~sw_ret.ret
    /\ sw.max_requests = 1
    /\ Len(sw_admitted) > 1
    /\ sw_admitted[Len(sw_admitted)] = sw_ret.at - TicksPerSecond

(* C24: the adaptive limiter.  After any sequence of record_response       *)
(* calls current_rate lies in [min_rate, max_rate], which is a tenth of    *)
(* the base rate to twice the base rate, and the rate of the wrapped       *)
(* token bucket is current_rate.                                           *)
C24_RateWithinBounds ==
    /\ ad.min_rate = ad.base_config.requests_per_second \div 10
    /\ ad.max_rate = 2 * ad.base_config.requests_per_second
    /\ ad.min_rate <= ad.current_rate
    /\ ad.current_rate <= ad.max_rate
    /\ ad.limiter.rate = ad.current_rate

\* A bad log has brought current_rate, and the bucket with it, down to
\* min_rate.
C24_Witness ==
    /\ ad.current_rate = ad.min_rate
    /\ ad.limiter.rate = ad.min_rate
    /\ ad_changed = ad.last_adjustment
    /\ ad_changed > 0

(* C25: the gate of the adaptive limiter.  A step changes current_rate or  *)
(* the rate of the wrapped bucket only if it is a record_response call     *)
(* made at least adjustment_interval after the previous adjustment (or     *)
(* the construction) with at least 10 samples in the log; so two changes   *)
(* of current_rate are at least adjustment_interval apart.                 *)
C25_GatedAdjustment ==
    [][(\/ ad'.current_rate # ad.current_rate
        \/ ad'.limiter.rate # ad.limiter.rate) =>
            /\ ad_ret'.op = "record_response"
            /\ ad_time - ad.last_adjustment >= ad.adjustment_interval
            /\ Samples(ad') >= MinSamples
            /\ ad_changed # -1 =>
                    ad_time - ad_changed >= ad.adjustment_interval]_vars

\* Half an interval after current_rate changed, a record_response call on
\* a log of 10 samples or more has left it as it was.
C25_Witness ==
    /\ ad_ret = ADCall("record_response", ad_time, FALSE)
    /\ ad_changed = ad.last_adjustment
    /\ ad_changed > 0
    /\ ad_time - ad_changed = ad.adjustment_interval \div 2
    /\ Samples(ad) > MinSamples

----------------------------------------------------------------------------
(* The selection strategies under a changing eligible list.                *)

(* C26: a selection on an empty eligible list returns None, raises no      *)
(* exception and leaves the strategy as it was -- index, weights, cache    *)
(* and counters -- for round robin, weighted round robin, IP hash and      *)
(* least connections (whose list is its own list of servers).              *)
C26_EmptySelection ==
    [][/\ rr_servers' = <<>> => (rr_ret' = None /\ rr' = rr)
       /\ (wrr_backends' = <<>> /\ wrr_backends # <<>>) =>
              (wrr_ret' = None /\ wrr' = wrr)
       /\ (iph_ret'.op = "select_backend" /\ iph_ret'.backends = <<>>) =>
              (iph_ret'.ret = None /\ iph' = iph)
       /\ (lc_ret'.op = "get_next_server" /\ lc.servers = <<>>) =>
              (lc_ret'.ret = None /\ lc' = lc)]_vars

\* Weighted round robin, its index and its weight advanced by earlier
\* selections, was last asked to select from the empty list.
C26_Witness ==
    /\ wrr_backends = <<>>
    /\ wrr_ret = None
    /\ wrr.current_index > 0
    /\ wrr.current_weight > 1

(* C27: only eligible backends are selected.  Whatever round robin,        *)
(* weighted round robin and IP hash return from a selection is a member of *)
(* the list passed to that call.                                           *)
C27_OnlyEligible ==
    /\ rr_ret \notin {None, "IndexError"} => rr_ret \in Range(rr_servers)
    /\ wrr_ret \notin {None, "ValueError"} => wrr_ret \in Range(wrr_backends)
    /\ iph_ret.ret # None => iph_ret.ret \in Range(iph_ret.backends)

\* IP hash has given a client whose cached backend was no longer in the
\* list a backend of the list: it counted that client twice.
C27_Witness ==
    /\ iph_ret.ret # None
    /\ iph_ret.client_ip \in DOMAIN iph.backend_cache
    /\ iph.backend_cache[iph_ret.client_ip] = iph_ret.ret
    /\ iph_ret.cached # None
    /\ iph_ret.cached \notin Range(iph_ret.backends)
    /\ iph.stats.unique_clients > Cardinality(DOMAIN iph.backend_cache)

(* C28: a non-positive weight is rejected at registration.                 *)
(* set_backend_weight(b, w) with w <= 0 raises ValueError and leaves       *)
(* backend_weights, max_weight and gcd_weight as they were, so every       *)
(* registered weight is positive in every state.                           *)
C28_NonPositiveWeightRejected ==
    [][/\ \A b \in Backends, weight \in Weights :
              (weight <= 0 /\ WRRSetWeight(b, weight)) =>
                  wrr_ret' = "ValueError"
       /\ wrr_ret' = "ValueError" =>
              /\ wrr'.backend_weights = wrr.backend_weights
              /\ wrr'.max_weight = wrr.max_weight
              /\ wrr'.gcd_weight = wrr.gcd_weight
       /\ \A b \in DOMAIN wrr'.backend_weights :
              wrr'.backend_weights[b] > 0]_vars

\* A weight was turned away while others, not all equal, are registered.
C28_Witness ==
    /\ wrr_ret = "ValueError"
    /\ Cardinality(DOMAIN wrr.backend_weights) > 1
    /\ wrr.max_weight > wrr.gcd_weight

----------------------------------------------------------------------------
(* Least connections: releases.                                            *)

(* C29: after any sequence of get_next_server, release_connection,         *)
(* add_server, remove_server and reset_connections every server's count of *)
(* active connections is >= 0, and a release that finds a count of 0       *)
(* leaves the counts as they are.                                          *)
C29_CountsNotNegative ==
    [][/\ \A server \in DOMAIN lc'.connections :
              lc'.connections[server] >= 0
       /\ lc_seen' = 0 => lc'.connections = lc.connections]_vars

\* A release has found its server at 0 while another server has
\* connections.
C29_Witness ==
    /\ lc_ret.op = "release_connection"
    /\ lc_seen = 0
    /\ lc.connections[lc_ret.arg] = 0
    /\ \E server \in DOMAIN lc.connections : lc.connections[server] > 0

(* C30: release is idempotent against double release.  When the caller of  *)
(* a selection releases its server a second time for that selection, the   *)
(* count stays what the first release left.                                *)
C30_DoubleReleaseIdempotent ==
    [][(lc_sel.released = 1 /\ lc_sel'.released = 2) =>
           lc'.connections = lc.connections]_vars

----------------------------------------------------------------------------
(* IP hash: removing a backend.                                            *)

(* C31: after remove_backend(b) no cache entry maps a client to b, and the *)
(* entries that map to other backends are as they were.                    *)
C31_RemovePurges ==
    [][iph_ret'.op = "remove_backend" =>
           /\ \A c \in DOMAIN iph'.backend_cache :
                  /\ iph'.backend_cache[c] # iph_ret'.backend_id
                  /\ c \in DOMAIN iph.backend_cache
           /\ \A c \in DOMAIN iph.backend_cache :
                  iph.backend_cache[c] # iph_ret'.backend_id =>
                      /\ c \in DOMAIN iph'.backend_cache
                      /\ iph'.backend_cache[c] = iph.backend_cache[c]]_vars

\* A removal has purged one client's entry and kept another's.
C31_Witness ==
    /\ iph_ret.op = "remove_backend"
    /\ iph_ret.cached = iph_ret.backend_id
    /\ DOMAIN iph.backend_cache # {}

----------------------------------------------------------------------------
(* Round robin under concurrent callers.                                   *)

(* C32: concurrent selections behave as if executed one at a time.  When   *)
(* m selections over a fixed list of n backends, n dividing m, have all    *)
(* returned, each backend was returned exactly m/n times.                  *)
C32_ConcurrentSelections ==
    ( /\ \A t \in Threads : rr_threads[t].pc = "idle"
      /\ rr_calls > 0
      /\ rr_calls % Len(rr_servers) = 0 ) =>
        \A i \in 1..Len(rr_servers) :
            Count(rr_log, rr_servers[i]) = rr_calls \div Len(rr_servers)

----------------------------------------------------------------------------
(* The circuit breaker: its transitions.                                   *)

(* C33: the state changes only along Closed -> Open, Open -> HalfOpen,     *)
(* HalfOpen -> Closed and HalfOpen -> Open, or by reset() to Closed; no    *)
(* call, recorded outcome or availability query moves it from Open to      *)
(* Closed or from Closed to HalfOpen.                                      *)
C33_TransitionsAllowed ==
    [][cb'.state # cb.state =>
           \/ cb.state = CLOSED /\ cb'.state = OPEN
           \/ cb.state = OPEN /\ cb'.state = HALF_OPEN
           \/ cb.state = HALF_OPEN /\ cb'.state \in {CLOSED, OPEN}
           \/ cb_ret'.op = "reset" /\ cb'.state = CLOSED]_vars

\* A call has moved an Open breaker whose timeout had elapsed to HalfOpen.
C33_Witness ==
    /\ cb_ret.op = "call"
    /\ cb_ret.pre = "open_expired"
    /\ cb_ret.ret = "invoked"
    /\ cb.state = HALF_OPEN

(* C34: after reset(), whatever the state and the counters were, the       *)
(* breaker is Closed with failure_count = 0 and success_count = 0.         *)
C34_ResetClears ==
    [][cb_ret'.op = "reset" =>
           /\ cb'.state = CLOSED
           /\ cb'.failure_count = 0
           /\ cb'.success_count = 0]_vars

(* C38: the breaker leaves HalfOpen for Closed on a recorded success only  *)
(* when success_threshold successes were recorded since it last entered    *)
(* HalfOpen; successes of an earlier HalfOpen episode that a failure ended *)
(* do not count.                                                           *)
C38_SuccessesOfThisEpisode ==
    [][(/\ cb.state = HALF_OPEN
        /\ cb'.state = CLOSED
        /\ cb_ret'.op = "record_success") =>
           cb_episode + 1 >= cb_config.success_threshold]_vars

----------------------------------------------------------------------------
(* The health checker: its thresholds.                                     *)

\* The number of results at the end of the history that are healthy
\* (healthy = TRUE) or are not (healthy = FALSE).
RECURSIVE Trailing(_, _)
Trailing(history, healthy) ==
    IF history = <<>> THEN 0
    ELSE IF (history[Len(history)] = HEALTHY) # healthy THEN 0
    ELSE 1 + Trailing(SubSeq(history, 1, Len(history) - 1), healthy)

(* C35: the status is UNHEALTHY once unhealthy_threshold consecutive       *)
(* checks have failed; it becomes UNHEALTHY only then, a healthy check in  *)
(* between restarting the count; and it becomes HEALTHY only after         *)
(* healthy_threshold consecutive healthy checks.                           *)
C35_HealthThresholds ==
    [][/\ Trailing(hc'.check_history, FALSE) >= hc_config.unhealthy_threshold
              => hc'.current_status = UNHEALTHY
       /\ (hc'.current_status = UNHEALTHY /\ hc.current_status # UNHEALTHY)
              => Trailing(hc'.check_history, FALSE) >=
                     hc_config.unhealthy_threshold
       /\ hc_ret' = HEALTHY => hc'.consecutive_failures = 0
       /\ (hc'.current_status = HEALTHY /\ hc.current_status # HEALTHY)
              => Trailing(hc'.check_history, TRUE) >=
                     hc_config.healthy_threshold]_vars

\* With unhealthy_threshold = 3: a failure, a healthy check, then three
\* failures in a row, and only now the status is UNHEALTHY.
C35_Witness ==
    /\ hc_config = DefaultHealthConfig
    /\ hc.check_history =
           <<UNHEALTHY, HEALTHY, UNHEALTHY, UNHEALTHY, UNHEALTHY>>
    /\ hc.current_status = UNHEALTHY
    /\ hc.consecutive_failures = 3

----------------------------------------------------------------------------
(* Round robin and weighted round robin when the list changes.             *)

(* C36: select_server returns eligible[current_index mod len(eligible)],   *)
(* a member of the list passed, and raises no error, whatever lists the    *)
(* earlier calls were given: the index is kept across membership changes.  *)
C36_IndexModLength ==
    [][rr_servers' # <<>> =>
           rr_ret' = rr_servers'[(rr.current_index % Len(rr_servers')) + 1]]_vars

(* C37: select_backend on a non-empty list terminates and returns a       *)
(* backend of that list whose weight is >= current_weight at the moment of *)
(* the selection, whatever positive weights are registered and whatever    *)
(* index and weight the earlier selections left, the weights and the list  *)
(* having changed in between.  Its loop makes at most one round over the   *)
(* list for every step of gcd_weight from the weight it starts at down to  *)
(* zero and from max_weight down to gcd_weight.                            *)
C37_WeightedSelectionReturns ==
    [][(wrr_backends' # <<>> /\ WRRSelectFrom(wrr_backends')) =>
           LET w0 == EnsureWeights(wrr, wrr_backends', 1) IN
           /\ wrr_ret' \in Range(wrr_backends')
           /\ WeightOf(wrr', wrr_ret') >= wrr'.current_weight
           /\ SelectLoopPasses(w0, wrr_backends') <=
                  Len(wrr_backends') *
                      ((w0.current_weight + w0.max_weight) \div w0.gcd_weight
                           + 1)]_vars

\* A selection from a list of one, whose backend is lighter than a
\* registered backend outside the list: the loop went round until
\* current_weight came down to its weight.
C37_Witness ==
    /\ Len(wrr_backends) = 1
    /\ wrr_ret = wrr_backends[1]
    /\ wrr.current_weight = WeightOf(wrr, wrr_ret)
    /\ wrr.current_weight > 1
    /\ wrr.max_weight > wrr.current_weight + 1

----------------------------------------------------------------------------
(* The token bucket: admitted load.                                        *)

\* The total cost, in tokens, of the requests admitted at the times from
\* from to to.
RECURSIVE AdmittedCost(_, _)
AdmittedCost(from, to) ==
    IF from > to THEN 0
    ELSE tb_admitted[from] + AdmittedCost(from + 1, to)

(* C39: the token bucket bounds the admitted load.  Over any interval of   *)
(* T seconds the total cost of the requests allow_request admitted is at   *)
(* most capacity + requests_per_second x T (here in thousandths of a       *)
(* token, times the number of ticks in a second).                          *)
C39_AdmittedLoadBounded ==
    \A from \in 0..tb_time, to \in 0..tb_time :
        from <= to =>
            Milli * AdmittedCost(from, to) * TicksPerSecond
                <= tb.capacity * TicksPerSecond + tb.rate * (to - from)

\* The requests admitted over an interval of some length, some at its
\* start and some at its end, cost exactly what the bound allows.
C39_Witness ==
    \E from \in 0..tb_time, to \in 0..tb_time :
        /\ from < to
        /\ tb_admitted[from] > 0
        /\ tb_admitted[to] > 0
        /\ Milli * AdmittedCost(from, to) * TicksPerSecond
               = tb.capacity * TicksPerSecond + tb.rate * (to - from)

----------------------------------------------------------------------------
(* The connection pool: its accounting.                                    *)

(* C40: after any sequence of start, acquire, release, maintenance and     *)
(* stop, current_idle + current_active is the number of connections the    *)
(* pool holds and current_active is the number of them that are in use.    *)
C40_AccountingConsistent ==
    /\ pool.stats.current_idle + pool.stats.current_active = PoolSize(pool)
    /\ pool.stats.current_active =
           Cardinality({n \in DOMAIN pool.connections :
                            pool.connections[n].state = IN_USE})

====
